---- MODULE Spec2Model ----
(***************************************************************************)
(* Health Flex timer application: the countdown engine of one Timer        *)
(* component (components/Timer.js), driven through its buttons, through    *)
(* the imperative handle it exposes for bulk actions, by its one-second    *)
(* interval and by its delayed completion and restart timeouts.            *)
(*                                                                         *)
(* One step of the model is one event-loop task of the JavaScript runtime  *)
(* (a press handler, a timer callback) together with the React commit it   *)
(* causes: the state updates the task enqueues are applied together, and   *)
(* the countdown effect (cleanup of the previous interval, then the new    *)
(* effect body) runs with that commit, before any other timer callback.    *)
(***************************************************************************)
EXTENDS Integers, Naturals, FiniteSets, Sequences, TLC

(* ---------------------------------------------------------------------- *)
(* Bounds                                                                   *)
(* ---------------------------------------------------------------------- *)

\* Largest duration (in seconds) a timer entity is given.
MaxDuration == 3

\* Largest number of countdowns an engine brings to zero in one behaviour.
MaxRuns == 2

(* ---------------------------------------------------------------------- *)
(* Timer entities                                                           *)
(* ---------------------------------------------------------------------- *)

\* Identities of the timer entities: one default timer (rendered as a
\* Timer) and one custom timer (rendered as a SwipeableTimer around a Timer).
TimerIds == {"default-1", "custom-1"}

\* The engine that the single-engine specification drives; the other
\* engines stay as constructed.
FocusIds == {"default-1"}

\* The operations that act on an engine.
Ops == {"mount", "press_start", "press_pause", "press_reset",
        "ref_start", "ref_pause", "ref_reset", "tick", "complete",
        "modal_close", "modal_view_history", "modal_restart", "restart_timeout"}

\* Identities of the HomeScreen specifications: the default timers and the
\* ids that custom timers are created with.
DefaultIds == {"default-1"}
CustomIds == {"custom-1", "custom-2"}
HomeIds == DefaultIds \cup CustomIds

\* The sections of the list: the default timers, and the custom timers of
\* one category.
SectionIds == {"default_timers", "custom_work"}

\* No confirmation dialog is open.
NoAlert == [kind |-> "none"]

\* No HomeScreen operation has run.
NoHomeOp == [op |-> "none"]

VARIABLES
  duration,              \* [id -> seconds]  the duration prop of the Timer
  remaining_time,        \* [id -> seconds]  useState(duration)
  is_running,            \* [id -> BOOLEAN]  useState(false)
  show_completion_modal, \* [id -> BOOLEAN]  useState(false)
  interval_ref,          \* [id -> BOOLEAN]  a live setInterval exists
  complete_timeouts,     \* [id -> Nat]      pending setTimeout(handle_timer_complete, 50)
  restart_timeouts,      \* [id -> SUBSET Nat] pending setTimeout(start_timer, 100),
                         \*   each kept as the remaining_time its closure captured
  complete_calls,        \* [id -> Nat]  history: invocations of handle_timer_complete
  zero_hits,             \* [id -> Nat]  history: ticks that brought remaining_time to 0
  run_base,              \* [id -> Nat]  history: zero_hits when the current run began
  ticks_in_run,          \* [id -> Nat]  history: ticks since mount or the last reset
  paused_in_run,         \* [id -> BOOLEAN] history: pause was called since the run began
  held,                  \* [id -> Int] history: remaining_time at the last pause or reset
                         \*   call, -1 once is_running has become true again
  last_op                \* history: the last operation, the engine it acted on and
                         \*   the state of that engine before the operation

\* State of the HomeScreen that renders the timers (screens/HomeScreen.js).
VARIABLES
  timers_list,           \* sequence of timer entities [id, is_default]: useState([])
  expanded_sections,     \* [section id -> BOOLEAN]: useState({default_timers: true})
  timer_refs,            \* ids that have a ref object in timer_refs.current
  mounted,               \* [id -> BOOLEAN] a Timer component of the id is mounted
                         \*   (the current of its ref object is its handle)
  in_window,             \* [id -> BOOLEAN] the item is inside the render window of
                         \*   the SectionList
  orphan_timeouts,       \* [id -> Nat] pending completion timeouts of unmounted
                         \*   components of the id
  alert,                 \* the confirmation dialog that is open, or NoAlert
  last_home              \* history: the last HomeScreen operation

\* State of the history journal (utils/history.js), of the device it runs
\* on, and of the calls made on it.
VARIABLES
  history_store,         \* the value stored under HISTORY_STORAGE_KEY:
                         \*   [kind, list], the list being the parsed array
  adds,                  \* [call -> record] the calls of add_timer_to_history
  clock,                 \* the clock of the device, in ClockUnits
  tz_offset,             \* offset of the local time of the device from UTC
  next_history_id,       \* number of history ids generated so far
  cleared,               \* history: ids of the entries that were stored when a
                         \*   clear_history succeeded
  fresh_add,             \* history: the arguments of the add that returned
                         \*   success, while no other journal operation has run
  last_journal,          \* history: the last journal operation
  group_input,           \* the list a pure function of the journal is applied to
  group_output,          \* the result of the last application
  hook_adds,             \* [id -> Nat] add_timer_to_history calls of completion
                         \*   hooks that have not settled
  add_attempts,          \* [id -> Nat] history: add_timer_to_history calls made
                         \*   by the completion hooks of the timer
  on_complete_calls      \* [id -> Nat] history: calls of the onComplete prop
                         \*   made by the completion hooks of the timer

\* The intervals of the Timers, the add-timer form (screens/AddTimerScreen.js),
\* the store of the timers list (utils/storage.js) and the snapshots taken
\* through the handles.
VARIABLES
  live_intervals,        \* [id -> Nat] setInterval callbacks of the Timer that
                         \*   were created and not cleared
  form_input,            \* the fields of the add-timer form
  form_output,           \* what pressing Save made of them
  stored_timers,         \* the value stored under TIMERS_STORAGE_KEY
  saves,                 \* the lists that calls of save_timers in flight are
                         \*   writing
  last_save,             \* history: the last step of the save effect
  snapshot               \* the last result of get_timer_state

journalVars == <<history_store, adds, clock, tz_offset,
                 next_history_id, cleared, fresh_add, last_journal,
                 group_input, group_output, hook_adds, add_attempts,
                 on_complete_calls>>

screenVars == <<form_input, form_output, stored_timers, saves, last_save, snapshot>>

homeVars == <<timers_list, expanded_sections, timer_refs, mounted, in_window,
              orphan_timeouts, alert, last_home>>

engineVars == <<remaining_time, is_running, show_completion_modal, interval_ref,
                live_intervals,
                complete_timeouts, restart_timeouts>>
historyVars == <<complete_calls, zero_hits, run_base, ticks_in_run, paused_in_run, held,
                 last_op>>
vars == <<duration, engineVars, historyVars, homeVars, journalVars, screenVars>>

\* The timers and their list, which the journal and the form leave alone.
timerVars == <<duration, engineVars, historyVars, homeVars>>

(* ---------------------------------------------------------------------- *)
(* Timer.js: pure parts                                                     *)
(* ---------------------------------------------------------------------- *)

\* get_state_text: the state the engine is presented in.
get_state_text(rem, run) ==
  IF rem = 0 THEN "Completed" ELSE IF run THEN "Running" ELSE "Paused"

\* start_timer comparing against the wrong threshold.
start_timer_off_by_one(rem, run) == IF rem > 1 THEN TRUE ELSE run

\* start_timer (button, restart timeout): the new is_running; rem is the
\* remaining_time of the render whose closure is called.
start_timer(rem, run) == IF rem > 0 THEN TRUE ELSE run

\* pause_timer that leaves is_running as it is.
pause_timer_keeps(run) == run

\* pause_timer (button): the new is_running.
pause_timer(run) == FALSE

\* Handle start_timer without the remaining_time > 0 test.
ref_start_timer_unchecked(rem, run) == IF ~run THEN TRUE ELSE run

\* Handle start_timer: the new is_running.
ref_start_timer(rem, run) == IF rem > 0 /\ ~run THEN TRUE ELSE run

\* Handle pause_timer: the new is_running.
ref_pause_timer(run) == IF run THEN FALSE ELSE run

\* reset_timer restoring one second too few.
reset_remaining_short(d) == d - 1

\* reset_timer restoring one second too many.
reset_remaining_long(d) == d + 1

\* reset_timer (button, handle, restart): the new remaining_time.
reset_remaining(d) == d

\* The updater the interval callback passes to set_remaining_time.
tick_updater(prev_time) == IF prev_time <= 1 THEN 0 ELSE prev_time - 1

\* An updater that does not stop the engine at zero.
tick_running_never_stops(prev_time, run) == run

\* The is_running the updater leaves: it stops the engine at zero.
tick_running(prev_time, run) == IF prev_time <= 1 THEN FALSE ELSE run

\* An updater that schedules the completion timeout twice.
tick_schedules_twice(prev_time) == IF prev_time <= 1 THEN 2 ELSE 0

\* Number of completion timeouts the updater schedules for prev_time.
tick_schedules(prev_time) == IF prev_time <= 1 THEN 1 ELSE 0

\* A countdown effect that does not test is_running.
CountdownEffect_ignores_running(run, rem) == rem > 0

\* The countdown effect: whether an interval is live after the effect ran
\* for the committed is_running and remaining_time.
CountdownEffect(run, rem) == run /\ rem > 0

(* ---------------------------------------------------------------------- *)
(* React commit of one Timer                                                *)
(* ---------------------------------------------------------------------- *)

\* A cleanup that clears nothing.
cleanup_clears_nothing(ref) == IF ref THEN 0 ELSE 0

\* The cleanup of the countdown effect: the number of live intervals it
\* clears, ref telling whether interval_ref.current holds one.
cleanup_clears(ref) == IF ref THEN 1 ELSE 0

\* The body of the countdown effect: the number of intervals it creates.
effect_creates(run, rem) == IF CountdownEffect(run, rem) THEN 1 ELSE 0

\* A commit whose countdown effect never clears the interval it created.
Commit_without_cleanup(id, run, rem, modal) ==
  /\ is_running' = [is_running EXCEPT ![id] = run]
  /\ remaining_time' = [remaining_time EXCEPT ![id] = rem]
  /\ show_completion_modal' = [show_completion_modal EXCEPT ![id] = modal]
  /\ interval_ref' = [interval_ref EXCEPT ![id] =
        IF run # is_running[id] \/ rem # remaining_time[id]
        THEN @ \/ (run /\ rem > 0) ELSE @]
  /\ live_intervals' = [live_intervals EXCEPT ![id] =
        IF (run # is_running[id] \/ rem # remaining_time[id]) /\ run /\ rem > 0
        THEN IF @ = 0 THEN 1 ELSE 2 ELSE @]

\* A commit into state that all Timer components share.
Commit_shared_state(id, run, rem, modal) ==
  /\ is_running' = [i \in DOMAIN is_running |-> run]
  /\ remaining_time' = [remaining_time EXCEPT ![id] = rem]
  /\ show_completion_modal' = [show_completion_modal EXCEPT ![id] = modal]
  /\ interval_ref' = [i \in DOMAIN interval_ref |->
        CountdownEffect(run, IF i = id THEN rem ELSE remaining_time[i])]
  /\ live_intervals' = [i \in DOMAIN live_intervals |->
        effect_creates(run, IF i = id THEN rem ELSE remaining_time[i])]

\* Commits new state of engine id; the countdown effect re-runs only when
\* one of its dependencies [is_running, remaining_time] changed.
Commit(id, run, rem, modal) ==
  /\ is_running' = [is_running EXCEPT ![id] = run]
  /\ remaining_time' = [remaining_time EXCEPT ![id] = rem]
  /\ show_completion_modal' = [show_completion_modal EXCEPT ![id] = modal]
  /\ interval_ref' = [interval_ref EXCEPT ![id] =
        IF run # is_running[id] \/ rem # remaining_time[id]
        THEN CountdownEffect(run, rem) ELSE @]
  /\ live_intervals' = [live_intervals EXCEPT ![id] =
        IF run # is_running[id] \/ rem # remaining_time[id]
        THEN (@ - cleanup_clears(interval_ref[id])) + effect_creates(run, rem)
        ELSE @]

\* The operation op on engine id, with the state of the engine before it.
Before(id, op) ==
  [op |-> op, id |-> id, rem |-> remaining_time[id], run |-> is_running[id],
   modal |-> show_completion_modal[id], pending |-> complete_timeouts[id],
   restarts |-> restart_timeouts[id], held |-> held[id]]

\* History bookkeeping of a step that is no pause, no reset and no tick;
\* run is the new is_running.
Note(id, op, run) ==
  /\ last_op' = Before(id, op)
  /\ held' = [held EXCEPT ![id] = IF run THEN -1 ELSE @]
  /\ UNCHANGED <<run_base, ticks_in_run, paused_in_run>>

\* History bookkeeping of a pause call.
NotePause(id, op) ==
  /\ last_op' = Before(id, op)
  /\ held' = [held EXCEPT ![id] = remaining_time[id]]
  /\ paused_in_run' = [paused_in_run EXCEPT ![id] = TRUE]
  /\ UNCHANGED <<run_base, ticks_in_run>>

\* History bookkeeping of a reset call: a new run begins.
NoteReset(id, op) ==
  /\ last_op' = Before(id, op)
  /\ held' = [held EXCEPT ![id] = duration[id]]
  /\ paused_in_run' = [paused_in_run EXCEPT ![id] = FALSE]
  /\ run_base' = [run_base EXCEPT ![id] = zero_hits[id]]
  /\ ticks_in_run' = [ticks_in_run EXCEPT ![id] = 0]

(* ---------------------------------------------------------------------- *)
(* State after construction                                                 *)
(* ---------------------------------------------------------------------- *)

\* The stored value when nothing has been stored: getItem returns null.
NoValue == [kind |-> "null", list |-> <<>>]

\* No journal operation has run.
NoJournalOp == [op |-> "none"]

\* The calls of add_timer_to_history that can be in flight together.
AddCalls == {"add-1", "add-2"}

\* A call that has not been made.
NoCall == [pc |-> "idle"]

\* No form was saved, no snapshot was taken, no step of the save effect ran.
NoForm == [kind |-> "none"]

\* The add-timer form as it is mounted and after a save: every field empty.
EmptyForm ==
  [kind |-> "fields", has_name |-> FALSE,
   duration_minutes |-> [kind |-> "empty", value |-> 0], has_category |-> FALSE]

NoSnapshot == [kind |-> "none"]
NoSaveOp == [op |-> "none"]

\* The form, the store of the timers list and the snapshot before their
\* first operation.
ScreensAtRest ==
  /\ form_input = EmptyForm
  /\ form_output = NoForm
  /\ stored_timers = NoValue
  /\ saves = {}
  /\ last_save = NoSaveOp
  /\ snapshot = NoSnapshot

\* The journal before its first operation, with no call in flight.
JournalAtRest(ids) ==
  /\ history_store = NoValue
  /\ adds = [c \in AddCalls |-> NoCall]
  /\ clock = 0
  /\ tz_offset = 0
  /\ next_history_id = 0
  /\ cleared = {}
  /\ fresh_add = NoCall
  /\ last_journal = NoJournalOp
  /\ group_input = <<>>
  /\ group_output = <<>>
  /\ hook_adds = [id \in ids |-> 0]
  /\ add_attempts = [id \in ids |-> 0]
  /\ on_complete_calls = [id \in ids |-> 0]
  /\ ScreensAtRest

\* The state after the components were constructed with durations from
\* the given set.
Constructed(durations) ==
  /\ duration \in durations
  /\ remaining_time = duration
  /\ is_running = [id \in TimerIds |-> FALSE]
  /\ show_completion_modal = [id \in TimerIds |-> FALSE]
  /\ interval_ref = [id \in TimerIds |-> FALSE]
  /\ live_intervals = [id \in TimerIds |-> 0]
  /\ complete_timeouts = [id \in TimerIds |-> 0]
  /\ restart_timeouts = [id \in TimerIds |-> {}]
  /\ complete_calls = [id \in TimerIds |-> 0]
  /\ zero_hits = [id \in TimerIds |-> 0]
  /\ run_base = [id \in TimerIds |-> 0]
  /\ ticks_in_run = [id \in TimerIds |-> 0]
  /\ paused_in_run = [id \in TimerIds |-> FALSE]
  /\ held = [id \in TimerIds |-> -1]
  /\ last_op = [op |-> "mount", id |-> "default-1", rem |-> duration["default-1"],
                run |-> FALSE, modal |-> FALSE, pending |-> 0, restarts |-> {},
                held |-> -1]
  /\ timers_list = <<[id |-> "default-1", is_default |-> TRUE],
                     [id |-> "custom-1", is_default |-> FALSE]>>
  /\ expanded_sections = [s \in SectionIds |-> TRUE]
  /\ timer_refs = TimerIds
  /\ mounted = [id \in TimerIds |-> TRUE]
  /\ in_window = [id \in TimerIds |-> TRUE]
  /\ orphan_timeouts = [id \in TimerIds |-> 0]
  /\ alert = NoAlert
  /\ last_home = NoHomeOp
  /\ JournalAtRest(TimerIds)

Init == Constructed([TimerIds -> 1..MaxDuration])

(* ---------------------------------------------------------------------- *)
(* Buttons of the Timer                                                     *)
(* ---------------------------------------------------------------------- *)

\* Start button: rendered when not running, disabled when remaining_time = 0.
PressStart(id) ==
  /\ ~is_running[id]
  /\ remaining_time[id] # 0
  /\ Commit(id, start_timer(remaining_time[id], is_running[id]),
            remaining_time[id], show_completion_modal[id])
  /\ Note(id, "press_start", start_timer(remaining_time[id], is_running[id]))
  /\ UNCHANGED <<screenVars, journalVars, homeVars, duration, complete_timeouts, restart_timeouts, complete_calls, zero_hits>>

\* Pause button: rendered when running.
PressPause(id) ==
  /\ is_running[id]
  /\ Commit(id, pause_timer(is_running[id]), remaining_time[id], show_completion_modal[id])
  /\ NotePause(id, "press_pause")
  /\ UNCHANGED <<screenVars, journalVars, homeVars, duration, complete_timeouts, restart_timeouts, complete_calls, zero_hits>>

\* Reset button: always rendered.
PressReset(id) ==
  /\ Commit(id, FALSE, reset_remaining(duration[id]), FALSE)
  /\ NoteReset(id, "press_reset")
  /\ UNCHANGED <<screenVars, journalVars, homeVars, duration, complete_timeouts, restart_timeouts, complete_calls, zero_hits>>

(* ---------------------------------------------------------------------- *)
(* Imperative handle of the Timer (used by bulk actions)                    *)
(* ---------------------------------------------------------------------- *)

\* Handle start_timer: callable in every state.
RefStart(id) ==
  /\ Commit(id, ref_start_timer(remaining_time[id], is_running[id]),
            remaining_time[id], show_completion_modal[id])
  /\ Note(id, "ref_start", ref_start_timer(remaining_time[id], is_running[id]))
  /\ UNCHANGED <<screenVars, journalVars, homeVars, duration, complete_timeouts, restart_timeouts, complete_calls, zero_hits>>

\* Handle pause_timer: callable in every state.
RefPause(id) ==
  /\ Commit(id, ref_pause_timer(is_running[id]), remaining_time[id], show_completion_modal[id])
  /\ NotePause(id, "ref_pause")
  /\ UNCHANGED <<screenVars, journalVars, homeVars, duration, complete_timeouts, restart_timeouts, complete_calls, zero_hits>>

\* Handle reset_timer: callable in every state.
RefReset(id) ==
  /\ Commit(id, FALSE, reset_remaining(duration[id]), FALSE)
  /\ NoteReset(id, "ref_reset")
  /\ UNCHANGED <<screenVars, journalVars, homeVars, duration, complete_timeouts, restart_timeouts, complete_calls, zero_hits>>

(* ---------------------------------------------------------------------- *)
(* Timer callbacks                                                          *)
(* ---------------------------------------------------------------------- *)

\* The interval callback. An interval is created by a commit, so it fires a
\* full second after every timeout (50 ms, 100 ms) that was pending at that
\* commit: it fires only when no timeout of the engine is pending.
Tick(id) ==
  /\ interval_ref[id]
  /\ complete_timeouts[id] = 0
  /\ restart_timeouts[id] = {}
  /\ remaining_time[id] > 1 \/ zero_hits[id] < MaxRuns
  /\ LET prev_time == remaining_time[id]
     IN /\ Commit(id, tick_running(prev_time, is_running[id]),
                  tick_updater(prev_time), show_completion_modal[id])
        /\ complete_timeouts' = [complete_timeouts EXCEPT ![id] = @ + tick_schedules(prev_time)]
        /\ zero_hits' = [zero_hits EXCEPT ![id] =
              IF prev_time # 0 /\ tick_updater(prev_time) = 0 THEN @ + 1 ELSE @]
  /\ ticks_in_run' = [ticks_in_run EXCEPT ![id] = @ + 1]
  /\ last_op' = Before(id, "tick")
  /\ UNCHANGED <<screenVars, journalVars, homeVars, duration, restart_timeouts, complete_calls, run_base, paused_in_run, held>>

\* The completion timeout fires: handle_timer_complete. It stops the engine,
\* shows the completion modal and calls add_timer_to_history once.
HandleTimerComplete(id) ==
  /\ complete_timeouts[id] > 0
  /\ Commit(id, FALSE, remaining_time[id], TRUE)
  /\ complete_timeouts' = [complete_timeouts EXCEPT ![id] = @ - 1]
  /\ complete_calls' = [complete_calls EXCEPT ![id] = @ + 1]
  /\ Note(id, "complete", FALSE)
  /\ UNCHANGED <<screenVars, journalVars, homeVars, duration, restart_timeouts, zero_hits>>

(* ---------------------------------------------------------------------- *)
(* Completion modal of the Timer                                            *)
(* ---------------------------------------------------------------------- *)

\* Close button of the modal.
ModalClose(id) ==
  /\ show_completion_modal[id]
  /\ Commit(id, is_running[id], remaining_time[id], FALSE)
  /\ Note(id, "modal_close", is_running[id])
  /\ UNCHANGED <<screenVars, journalVars, homeVars, duration, complete_timeouts, restart_timeouts, complete_calls, zero_hits>>

\* View History button of the modal (the navigation is not engine state).
ModalViewHistory(id) ==
  /\ show_completion_modal[id]
  /\ Commit(id, is_running[id], remaining_time[id], FALSE)
  /\ Note(id, "modal_view_history", is_running[id])
  /\ UNCHANGED <<screenVars, journalVars, homeVars, duration, complete_timeouts, restart_timeouts, complete_calls, zero_hits>>

\* Restart button of the modal: resets, and schedules start_timer of the
\* render that showed the modal.
ModalRestart(id) ==
  /\ show_completion_modal[id]
  /\ Commit(id, FALSE, reset_remaining(duration[id]), FALSE)
  /\ restart_timeouts' = [restart_timeouts EXCEPT ![id] = @ \cup {remaining_time[id]}]
  /\ NoteReset(id, "modal_restart")
  /\ UNCHANGED <<screenVars, journalVars, homeVars, duration, complete_timeouts, complete_calls, zero_hits>>

\* The restart timeout fires: start_timer of the captured render.
RestartTimeout(id) ==
  /\ \E c \in restart_timeouts[id] :
       /\ Commit(id, start_timer(c, is_running[id]), remaining_time[id],
                 show_completion_modal[id])
       /\ restart_timeouts' = [restart_timeouts EXCEPT ![id] = @ \ {c}]
       /\ Note(id, "restart_timeout", start_timer(c, is_running[id]))
  /\ UNCHANGED <<screenVars, journalVars, homeVars, duration, complete_timeouts, complete_calls, zero_hits>>

(* ---------------------------------------------------------------------- *)
(* Specification of the engines                                             *)
(* ---------------------------------------------------------------------- *)

Next ==
  \E id \in FocusIds :
    \/ PressStart(id)
    \/ PressPause(id)
    \/ PressReset(id)
    \/ RefStart(id)
    \/ RefPause(id)
    \/ RefReset(id)
    \/ Tick(id)
    \/ HandleTimerComplete(id)
    \/ ModalClose(id)
    \/ ModalViewHistory(id)
    \/ ModalRestart(id)
    \/ RestartTimeout(id)

Spec == Init /\ [][Next]_vars

TypeOK ==
  /\ duration \in [TimerIds -> 1..MaxDuration]
  /\ remaining_time \in [TimerIds -> 0..MaxDuration]
  /\ is_running \in [TimerIds -> BOOLEAN]
  /\ show_completion_modal \in [TimerIds -> BOOLEAN]
  /\ interval_ref \in [TimerIds -> BOOLEAN]
  /\ complete_timeouts \in [TimerIds -> 0..1]
  /\ restart_timeouts \in [TimerIds -> SUBSET (0..MaxDuration)]
  /\ last_op.op \in Ops /\ last_op.id \in TimerIds
  /\ held \in [TimerIds -> -1..MaxDuration]

(* ---------------------------------------------------------------------- *)
(* Presented states of an engine                                            *)
(* ---------------------------------------------------------------------- *)

StartOps == {"press_start", "ref_start"}
PauseOps == {"press_pause", "ref_pause"}
ResetOps == {"press_reset", "ref_reset", "modal_restart"}

\* The engine last_op acted on.
Acted == last_op.id

(* ---------------------------------------------------------------------- *)
(* Properties of the engine                                                 *)
(* ---------------------------------------------------------------------- *)

\* C1: an engine started from Idle (remaining = D, not running) on which
\* exactly D ticks have fired with no pause or reset in between is
\* Completed: remaining = 0, not running, and its run has raised exactly one
\* completion, whose hook is pending or has been invoked exactly once.
C1_FullCountdownCompletesOnce ==
  \A id \in TimerIds :
    (ticks_in_run[id] = duration[id] /\ ~paused_in_run[id]) =>
      /\ remaining_time[id] = 0
      /\ ~is_running[id]
      /\ get_state_text(remaining_time[id], is_running[id]) = "Completed"
      /\ zero_hits[id] = run_base[id] + 1
      /\ complete_calls[id] + complete_timeouts[id] = zero_hits[id]
      /\ (last_op.op = "complete" /\ Acted = id /\ run_base[id] = 0)
            => complete_calls[id] = 1

\* C1 witness: the first run of an engine of the largest duration counted
\* down without a pause and its completion hook has run.
C1_Witness ==
  \E id \in TimerIds :
    /\ duration[id] = MaxDuration
    /\ ticks_in_run[id] = duration[id]
    /\ ~paused_in_run[id]
    /\ run_base[id] = 0
    /\ last_op.op = "complete" /\ Acted = id
    /\ complete_calls[id] = 1

\* C2: the completion hook is invoked exactly once per transition of
\* remaining to 0: every such transition has one hook that is pending or
\* has run, no hook runs without one, and at most one is pending.
C2_OneHookPerZeroTransition ==
  \A id \in TimerIds :
    /\ complete_calls[id] + complete_timeouts[id] = zero_hits[id]
    /\ complete_timeouts[id] <= 1
    /\ (last_op.op = "tick" /\ Acted = id /\ last_op.rem = 1)
          => (remaining_time[id] = 0 /\ complete_timeouts[id] = last_op.pending + 1)
    /\ (last_op.op = "tick" /\ Acted = id /\ last_op.rem # 1)
          => complete_timeouts[id] = last_op.pending

\* C2 witness: a second run, after a reset and a full countdown, has fired
\* the hook again.
C2_Witness ==
  \E id \in TimerIds :
    /\ complete_calls[id] = 2
    /\ zero_hits[id] = 2
    /\ run_base[id] = 1
    /\ last_op.op = "complete"

\* C3 (as claimed): reset() clears any pending completion signal: once
\* reset() has been called, no completion hook runs for the run that
\* preceded it, so a hook that has just run was raised by a tick of the
\* current run and finds the engine at remaining = 0.
C3_ResetClearsPendingCompletion ==
  (last_op.op = "complete") =>
    /\ zero_hits[Acted] > run_base[Acted]
    /\ remaining_time[Acted] = 0

\* C4: reset() from any state yields remaining = duration, running = false
\* and completed = false.
C4_ResetYieldsIdle ==
  (last_op.op \in ResetOps) =>
    /\ remaining_time[Acted] = duration[Acted]
    /\ ~is_running[Acted]
    /\ get_state_text(remaining_time[Acted], is_running[Acted]) # "Completed"
    /\ ~interval_ref[Acted]

\* C4 witness: reset has acted on a Completed engine.
C4_Witness ==
  /\ last_op.op \in {"press_reset", "ref_reset"}
  /\ get_state_text(last_op.rem, last_op.run) = "Completed"
  /\ remaining_time[Acted] = duration[Acted]

\* C5: pause() followed later by start() preserves remaining exactly: a
\* start finds the remaining that the preceding pause (or reset) left, and
\* leaves it, and the ticks of a run plus remaining always equal duration,
\* so a run takes exactly duration ticks from Idle to Completed.
C5_PauseStartPreservesRemaining ==
  /\ \A id \in TimerIds : ticks_in_run[id] + remaining_time[id] = duration[id]
  /\ (last_op.op \in StartOps /\ last_op.held # -1) =>
        /\ last_op.rem = last_op.held
        /\ remaining_time[Acted] = last_op.held

\* C5 witness: a paused engine was started again in the middle of a run.
C5_Witness ==
  /\ last_op.op \in StartOps
  /\ paused_in_run[Acted]
  /\ last_op.held # -1
  /\ ~last_op.run /\ is_running[Acted]
  /\ 0 < ticks_in_run[Acted]
  /\ remaining_time[Acted] = last_op.held

C7_CompletedIffZeroAndNotRunning ==
  \A id \in TimerIds :
    /\ remaining_time[id] = 0 => ~is_running[id]
    /\ (get_state_text(remaining_time[id], is_running[id]) = "Completed")
          <=> (remaining_time[id] = 0)
    /\ ~(is_running[id] /\ get_state_text(remaining_time[id], is_running[id]) = "Completed")

\* C7 witness: a tick has just brought an engine to remaining = 0.
C7_Witness ==
  /\ last_op.op = "tick"
  /\ last_op.run
  /\ remaining_time[Acted] = 0
  /\ ~is_running[Acted]

\* C8: remaining is an integer with 0 <= remaining <= duration.
C8_RemainingWithinBounds ==
  \A id \in TimerIds :
    /\ remaining_time[id] \in Int
    /\ 0 <= remaining_time[id]
    /\ remaining_time[id] <= duration[id]

\* C8 witness: an engine of the largest duration went down to 0 and a reset
\* has put it back to duration.
C8_Witness ==
  /\ last_op.op \in ResetOps
  /\ last_op.rem = 0
  /\ duration[Acted] = MaxDuration
  /\ remaining_time[Acted] = MaxDuration

\* C9: start() on an engine that is Running or has remaining = 0 changes
\* nothing; start() from Idle or Paused with remaining > 0 sets running and
\* leaves remaining.
C9_StartFrame ==
  (last_op.op \in StartOps) =>
    IF last_op.run \/ last_op.rem = 0
    THEN /\ remaining_time[Acted] = last_op.rem
         /\ is_running[Acted] = last_op.run
         /\ show_completion_modal[Acted] = last_op.modal
         /\ complete_timeouts[Acted] = last_op.pending
         /\ restart_timeouts[Acted] = last_op.restarts
    ELSE /\ is_running[Acted]
         /\ interval_ref[Acted]
         /\ remaining_time[Acted] = last_op.rem
         /\ complete_timeouts[Acted] = last_op.pending

\* C9 witness: start was called on a Completed engine and changed nothing.
C9_Witness ==
  /\ last_op.op \in StartOps
  /\ last_op.rem = 0
  /\ remaining_time[Acted] = 0
  /\ ~is_running[Acted]

\* C10: pause() moves a Running engine to Paused with remaining unchanged,
\* and changes nothing from Idle, Paused or Completed.
C10_PauseFrame ==
  (last_op.op \in PauseOps) =>
    /\ remaining_time[Acted] = last_op.rem
    /\ show_completion_modal[Acted] = last_op.modal
    /\ complete_timeouts[Acted] = last_op.pending
    /\ restart_timeouts[Acted] = last_op.restarts
    /\ IF last_op.run
       THEN /\ ~is_running[Acted]
            /\ ~interval_ref[Acted]
            /\ get_state_text(remaining_time[Acted], is_running[Acted]) = "Paused"
       ELSE /\ is_running[Acted] = last_op.run
            /\ get_state_text(remaining_time[Acted], is_running[Acted])
                 = get_state_text(last_op.rem, last_op.run)

\* C10 witness: pause was called on a Running engine in the middle of a run.
C10_Witness ==
  /\ last_op.op \in PauseOps
  /\ last_op.run
  /\ 0 < ticks_in_run[Acted]
  /\ get_state_text(remaining_time[Acted], is_running[Acted]) = "Paused"

-----------------------------------------------------------------------------
\* The HomeScreen: the list of timer entities, its sections, the registry of
\* handles (timer_refs), bulk actions, deletion and addition.
\*
\* One step is one JS task with the React commit that follows it. A commit
\* mounts a Timer component for every item the SectionList renders and
\* unmounts the components of the items it no longer renders. The engine
\* state of a timer is the useState of its Timer component: it exists while
\* the component is mounted, and a newly mounted component starts from
\* useState(duration), useState(false).  The variables remaining_time,
\* is_running, show_completion_modal and interval_ref of an id whose
\* component is unmounted hold the values its next mount starts from.

MaxHomeDuration == 2

\* The entity a default timer is loaded as, and the section it is shown in.
DefaultTimer(id) == [id |-> id, is_default |-> TRUE]

\* All identities of the entities of a list, and the entities of a section.
ListIds(list) == {list[i].id : i \in DOMAIN list}

section_of(timer) == IF timer.is_default THEN "default_timers" ELSE "custom_work"

\* section.all_data: the ids of the timers of the section, in list order.
all_data(list, section) ==
  LET ids == [i \in DOMAIN list |-> list[i].id]
      Test(id) == \E i \in DOMAIN list :
                     list[i].id = id /\ section_of(list[i]) = section
  IN SelectSeq(ids, Test)

\* The ids whose item the SectionList renders: section.data is the timers of
\* an expanded section and [] for a collapsed one, and the list renders the
\* items inside its render window.
Rendered(list, expanded, window) ==
  {id \in ListIds(list) :
      /\ window[id]
      /\ \E i \in DOMAIN list :
            list[i].id = id /\ expanded[section_of(list[i])]}

\* timer_refs.current[id] && timer_refs.current[id].current: the id has a
\* ref object, and a mounted component has attached its handle to it.
Resolvable(refs, mnt, id) == id \in refs /\ mnt[id]

\* The record of a HomeScreen operation in last_home.
HomeOp(op, id) == [op |-> op, id |-> id]

\* The commit after a handler left the list, the sections, the window and
\* the ref objects as given, the engines as given by run, rem and modal, and
\* the pending completion timeouts as given by pend.
\* get_timer_ref creates a ref object for every rendered item that has none.
\* An unmounted component loses its state, its interval is cleared by the
\* cleanup of the countdown effect, and its pending completion timeouts stay
\* scheduled.
HomeCommit(list, expanded, window, refs, run, rem, modal, pend) ==
  LET now == Rendered(list, expanded, window)
      Stays(id) == mounted[id] /\ id \in now
  IN /\ timers_list' = list
     /\ expanded_sections' = expanded
     /\ in_window' = window
     /\ timer_refs' = refs \cup now
     /\ mounted' = [id \in HomeIds |-> id \in now]
     /\ is_running' = [id \in HomeIds |-> IF Stays(id) THEN run[id] ELSE FALSE]
     /\ remaining_time' =
          [id \in HomeIds |-> IF Stays(id) THEN rem[id] ELSE duration[id]]
     /\ show_completion_modal' =
          [id \in HomeIds |-> IF Stays(id) THEN modal[id] ELSE FALSE]
     /\ interval_ref' =
          [id \in HomeIds |->
             IF ~Stays(id) THEN FALSE
             ELSE IF run[id] # is_running[id] \/ rem[id] # remaining_time[id]
                  THEN CountdownEffect(run[id], rem[id])
                  ELSE interval_ref[id]]
     /\ live_intervals' =
          [id \in HomeIds |->
             IF ~Stays(id) THEN 0
             ELSE IF run[id] # is_running[id] \/ rem[id] # remaining_time[id]
                  THEN (live_intervals[id] - cleanup_clears(interval_ref[id]))
                         + effect_creates(run[id], rem[id])
                  ELSE live_intervals[id]]
     /\ complete_timeouts' =
          [id \in HomeIds |-> IF Stays(id) THEN pend[id] ELSE 0]
     /\ orphan_timeouts' =
          [id \in HomeIds |-> IF Stays(id) THEN orphan_timeouts[id]
                              ELSE orphan_timeouts[id] + pend[id]]

\* The state after load_timers_from_storage: the default timers, with or
\* without a stored custom timer; only the default section is expanded.
InitHome ==
  /\ duration \in {[id \in HomeIds |-> d] : d \in 1..MaxHomeDuration}
  /\ remaining_time = duration
  /\ is_running = [id \in HomeIds |-> FALSE]
  /\ show_completion_modal = [id \in HomeIds |-> FALSE]
  /\ interval_ref = [id \in HomeIds |-> FALSE]
  /\ live_intervals = [id \in HomeIds |-> 0]
  /\ complete_timeouts = [id \in HomeIds |-> 0]
  /\ restart_timeouts = [id \in HomeIds |-> {}]
  /\ complete_calls = [id \in HomeIds |-> 0]
  /\ zero_hits = [id \in HomeIds |-> 0]
  /\ run_base = [id \in HomeIds |-> 0]
  /\ ticks_in_run = [id \in HomeIds |-> 0]
  /\ paused_in_run = [id \in HomeIds |-> FALSE]
  /\ held = [id \in HomeIds |-> -1]
  /\ last_op = [op |-> "mount", id |-> "default-1", rem |-> duration["default-1"],
                run |-> FALSE, modal |-> FALSE, pending |-> 0, restarts |-> {},
                held |-> -1]
  /\ timers_list \in
       {<<DefaultTimer("default-1")>>,
        <<DefaultTimer("default-1"), [id |-> "custom-1", is_default |-> FALSE]>>}
  /\ expanded_sections =
       [s \in SectionIds |-> s = "default_timers"]
  /\ in_window = [id \in HomeIds |-> TRUE]
  /\ timer_refs = DefaultIds
  /\ mounted = [id \in HomeIds |-> id \in DefaultIds]
  /\ orphan_timeouts = [id \in HomeIds |-> 0]
  /\ alert = NoAlert
  /\ last_home = NoHomeOp
  /\ JournalAtRest(HomeIds)

\* A step of the engine of one mounted timer: the list, the sections, the
\* window and the ref objects stay as they are.
HomeEngine(id, run, rem, modal, pend) ==
  HomeCommit(timers_list, expanded_sections, in_window, timer_refs,
             [is_running EXCEPT ![id] = run],
             [remaining_time EXCEPT ![id] = rem],
             [show_completion_modal EXCEPT ![id] = modal],
             [complete_timeouts EXCEPT ![id] = pend])

\* The Start button of a mounted timer.
HomePressStart(id) ==
  /\ alert = NoAlert
  /\ mounted[id]
  /\ ~is_running[id]
  /\ remaining_time[id] # 0
  /\ HomeEngine(id, start_timer(remaining_time[id], is_running[id]),
                remaining_time[id], show_completion_modal[id],
                complete_timeouts[id])
  /\ last_home' = HomeOp("press_start", id)
  /\ UNCHANGED <<screenVars, journalVars, duration, restart_timeouts, historyVars, alert>>

\* The interval callback of a mounted timer. A completion timeout (50 ms)
\* left by an unmounted component of the id fires before the first tick
\* (1 s) of the component mounted after it.
HomeTick(id) ==
  /\ mounted[id]
  /\ interval_ref[id]
  /\ complete_timeouts[id] = 0
  /\ orphan_timeouts[id] = 0
  /\ HomeEngine(id, tick_running(remaining_time[id], is_running[id]),
                tick_updater(remaining_time[id]), show_completion_modal[id],
                complete_timeouts[id] + tick_schedules(remaining_time[id]))
  /\ last_home' = HomeOp("tick", id)
  /\ UNCHANGED <<screenVars, journalVars, duration, restart_timeouts, historyVars, alert>>

\* The completion timeout of a mounted timer fires: handle_timer_complete.
HomeTimerComplete(id) ==
  /\ complete_timeouts[id] > 0
  /\ HomeEngine(id, FALSE, remaining_time[id], TRUE, complete_timeouts[id] - 1)
  /\ last_home' = HomeOp("complete", id)
  /\ UNCHANGED <<screenVars, journalVars, duration, restart_timeouts, historyVars, alert>>

\* The completion timeout of a component that was unmounted fires:
\* handle_timer_complete of that component runs. Its state setters have no
\* effect; add_timer_to_history and onComplete are called as for a mounted
\* component.
OrphanTimerComplete(id) ==
  /\ orphan_timeouts[id] > 0
  /\ orphan_timeouts' = [orphan_timeouts EXCEPT ![id] = @ - 1]
  /\ last_home' = HomeOp("orphan_complete", id)
  /\ UNCHANGED <<screenVars, journalVars, duration, engineVars, historyVars, timers_list,
                 expanded_sections, timer_refs, mounted, in_window, alert>>

\* Close button of the completion modal of a mounted timer.
HomeModalClose(id) ==
  /\ mounted[id]
  /\ show_completion_modal[id]
  /\ HomeEngine(id, is_running[id], remaining_time[id], FALSE,
                complete_timeouts[id])
  /\ last_home' = HomeOp("modal_close", id)
  /\ UNCHANGED <<screenVars, journalVars, duration, restart_timeouts, historyVars, alert>>

\* toggle_section: the header of a section is pressed.
ToggleSection(section) ==
  /\ alert = NoAlert
  /\ all_data(timers_list, section) # <<>>
  /\ HomeCommit(timers_list,
                [expanded_sections EXCEPT ![section] = ~@],
                in_window, timer_refs, is_running, remaining_time,
                show_completion_modal, complete_timeouts)
  /\ last_home' = HomeOp("toggle_section", section)
  /\ UNCHANGED <<screenVars, journalVars, duration, restart_timeouts, historyVars, alert>>

\* The SectionList scrolls an item of an expanded section out of its render
\* window (the component is unmounted) or back into it.
ListWindowLeave(id) ==
  /\ alert = NoAlert
  /\ mounted[id]
  /\ HomeCommit(timers_list, expanded_sections,
                [in_window EXCEPT ![id] = FALSE], timer_refs, is_running,
                remaining_time, show_completion_modal, complete_timeouts)
  /\ last_home' = HomeOp("window_leave", id)
  /\ UNCHANGED <<screenVars, journalVars, duration, restart_timeouts, historyVars, alert>>

ListWindowEnter(id) ==
  /\ alert = NoAlert
  /\ id \in ListIds(timers_list)
  /\ ~in_window[id]
  /\ HomeCommit(timers_list, expanded_sections,
                [in_window EXCEPT ![id] = TRUE], timer_refs, is_running,
                remaining_time, show_completion_modal, complete_timeouts)
  /\ last_home' = HomeOp("window_enter", id)
  /\ UNCHANGED <<screenVars, journalVars, duration, restart_timeouts, historyVars, alert>>
(* ---------------------------------------------------------------------- *)
(* Bulk actions                                                             *)
(* ---------------------------------------------------------------------- *)

BulkActions == {"start", "pause", "reset"}

\* The engines and the counter before the first identity is processed.
BulkStart ==
  [run |-> is_running, rem |-> remaining_time, modal |-> show_completion_modal,
   count |-> 0, skipped |-> {}]

\* The body of timers.forEach in execute_bulk_action for one identity. The
\* handle methods are closures over the committed state of their component.
\* action_count++ follows every call of a handle method; an identity
\* without a resolvable handle takes the else branch (console.warn).
BulkStep_stops_after_first(action, id, st) ==
  IF Resolvable(timer_refs, mounted, id) /\ st.count = 0
  THEN [st EXCEPT
          !.run[id] = IF action = "start"
                      THEN ref_start_timer(remaining_time[id], is_running[id])
                      ELSE IF action = "pause" THEN ref_pause_timer(is_running[id])
                      ELSE FALSE,
          !.rem[id] = IF action = "reset" THEN reset_remaining(duration[id])
                      ELSE remaining_time[id],
          !.modal[id] = IF action = "reset" THEN FALSE
                        ELSE show_completion_modal[id],
          !.count = @ + 1]
  ELSE [st EXCEPT !.skipped = @ \cup {id}]

BulkStep_counts_absent(action, id, st) ==
  IF Resolvable(timer_refs, mounted, id)
  THEN [st EXCEPT
          !.run[id] = IF action = "start"
                      THEN ref_start_timer(remaining_time[id], is_running[id])
                      ELSE IF action = "pause" THEN ref_pause_timer(is_running[id])
                      ELSE FALSE,
          !.rem[id] = IF action = "reset" THEN reset_remaining(duration[id])
                      ELSE remaining_time[id],
          !.modal[id] = IF action = "reset" THEN FALSE
                        ELSE show_completion_modal[id],
          !.count = @ + 1]
  ELSE [st EXCEPT !.count = @ + 1, !.skipped = @ \cup {id}]

BulkStep(action, id, st) ==
  IF Resolvable(timer_refs, mounted, id)
  THEN [st EXCEPT
          !.run[id] = IF action = "start"
                      THEN ref_start_timer(remaining_time[id], is_running[id])
                      ELSE IF action = "pause" THEN ref_pause_timer(is_running[id])
                      ELSE FALSE,
          !.rem[id] = IF action = "reset" THEN reset_remaining(duration[id])
                      ELSE remaining_time[id],
          !.modal[id] = IF action = "reset" THEN FALSE
                        ELSE show_completion_modal[id],
          !.count = @ + 1]
  ELSE [st EXCEPT !.skipped = @ \cup {id}]

\* timers.forEach: the identities are processed in the order of the list.
RECURSIVE BulkFold(_, _, _)
BulkFold(action, timers, st) ==
  IF timers = <<>> THEN st
  ELSE BulkFold(action, Tail(timers), BulkStep(action, Head(timers), st))

\* execute_bulk_action(action, timers) and the commit after it.
execute_bulk_action(action, section, timers) ==
  LET st == BulkFold(action, timers, BulkStart)
  IN /\ HomeCommit(timers_list, expanded_sections, in_window, timer_refs,
                   st.run, st.rem, st.modal, complete_timeouts)
     /\ last_home' = HomeOp("bulk", section) @@
                       [action |-> action, timers |-> timers,
                        count |-> st.count, skipped |-> st.skipped]

\* handle_bulk_action with start or pause: a bulk button of the header of
\* an expanded section with timers is pressed.
BulkAction(action, section) ==
  /\ alert = NoAlert
  /\ expanded_sections[section]
  /\ all_data(timers_list, section) # <<>>
  /\ execute_bulk_action(action, section, all_data(timers_list, section))
  /\ UNCHANGED <<screenVars, journalVars, duration, restart_timeouts, historyVars, alert>>

\* handle_bulk_action with reset: the confirmation dialog opens.
RequestBulkReset(section) ==
  /\ alert = NoAlert
  /\ expanded_sections[section]
  /\ all_data(timers_list, section) # <<>>
  /\ alert' = [kind |-> "bulk_reset", section |-> section,
               timers |-> all_data(timers_list, section)]
  /\ last_home' = HomeOp("request_bulk_reset", section)
  /\ UNCHANGED <<screenVars, journalVars, duration, engineVars, historyVars, timers_list,
                 expanded_sections, timer_refs, mounted, in_window,
                 orphan_timeouts>>

\* "Cancel" of the reset confirmation.
CancelBulkReset_resets ==
  /\ alert.kind = "bulk_reset"
  /\ LET st == BulkFold("reset", alert.timers, BulkStart)
     IN HomeCommit(timers_list, expanded_sections, in_window, timer_refs,
                   st.run, st.rem, st.modal, complete_timeouts)
  /\ alert' = NoAlert
  /\ last_home' = HomeOp("cancel_bulk_reset", alert.section)
  /\ UNCHANGED <<screenVars, journalVars, duration, restart_timeouts, historyVars>>

CancelBulkReset ==
  /\ alert.kind = "bulk_reset"
  /\ alert' = NoAlert
  /\ last_home' = HomeOp("cancel_bulk_reset", alert.section)
  /\ UNCHANGED <<screenVars, journalVars, duration, engineVars, historyVars, timers_list,
                 expanded_sections, timer_refs, mounted, in_window,
                 orphan_timeouts>>

\* "Reset All" of the reset confirmation.
ConfirmBulkReset ==
  /\ alert.kind = "bulk_reset"
  /\ execute_bulk_action("reset", alert.section, alert.timers)
  /\ alert' = NoAlert
  /\ UNCHANGED <<screenVars, journalVars, duration, restart_timeouts, historyVars>>

(* ---------------------------------------------------------------------- *)
(* Deleting and adding timers                                               *)
(* ---------------------------------------------------------------------- *)

\* cleanup_timer_ref: the ref object of the id is deleted from timer_refs.
cleanup_timer_ref_keeps(refs, timer_id) == refs

cleanup_timer_ref(refs, timer_id) == refs \ {timer_id}

\* prev_timers.filter(timer => timer.id !== timer_id)
filter_timer_removes_all(list, timer_id) ==
  SelectSeq(list, LAMBDA timer : timer.is_default)

filter_timer(list, timer_id) ==
  SelectSeq(list, LAMBDA timer : timer.id # timer_id)

\* handle_delete_timer(timer_id) and the commit after it.
handle_delete_timer(timer_id) ==
  /\ HomeCommit(filter_timer(timers_list, timer_id), expanded_sections,
                in_window, cleanup_timer_ref(timer_refs, timer_id),
                is_running, remaining_time, show_completion_modal,
                complete_timeouts)
  /\ last_home' = HomeOp("delete", timer_id)

\* handle_delete of SwipeableTimer: the Delete button behind a mounted
\* custom timer is pressed, and the confirmation dialog opens.
RequestDelete(id) ==
  /\ alert = NoAlert
  /\ mounted[id]
  /\ \E i \in DOMAIN timers_list :
        timers_list[i].id = id /\ ~timers_list[i].is_default
  /\ alert' = [kind |-> "delete", id |-> id]
  /\ last_home' = HomeOp("request_delete", id)
  /\ UNCHANGED <<screenVars, journalVars, duration, engineVars, historyVars, timers_list,
                 expanded_sections, timer_refs, mounted, in_window,
                 orphan_timeouts>>

\* "Cancel" of the delete confirmation.
CancelDelete ==
  /\ alert.kind = "delete"
  /\ alert' = NoAlert
  /\ last_home' = HomeOp("cancel_delete", alert.id)
  /\ UNCHANGED <<screenVars, journalVars, duration, engineVars, historyVars, timers_list,
                 expanded_sections, timer_refs, mounted, in_window,
                 orphan_timeouts>>

\* "Delete" of the delete confirmation: onDelete(timer.id).
ConfirmDelete ==
  /\ alert.kind = "delete"
  /\ handle_delete_timer(alert.id)
  /\ alert' = NoAlert
  /\ UNCHANGED <<screenVars, journalVars, duration, restart_timeouts, historyVars>>

\* The updater of set_timers_list in the focus effect: a timer whose id is
\* present is not added; a new one is appended with is_default: false.
add_new_timer_always(list, new_timer) ==
  Append(list, [id |-> new_timer.id, is_default |-> FALSE])

add_new_timer(list, new_timer) ==
  IF \E i \in DOMAIN list : list[i].id = new_timer.id
  THEN list
  ELSE Append(list, [id |-> new_timer.id, is_default |-> FALSE])

\* The values of route.params.new_timer: AddTimerScreen builds the timer
\* without an is_default field.
NewTimers == [id : CustomIds]

\* The handler of the focus effect and the commit after it.
focus_new_timer(new_timer) ==
  /\ HomeCommit(add_new_timer(timers_list, new_timer),
                [expanded_sections EXCEPT !["custom_work"] = TRUE],
                [in_window EXCEPT ![new_timer.id] =
                    IF new_timer.id \in ListIds(timers_list) THEN @ ELSE TRUE],
                timer_refs, is_running, remaining_time,
                show_completion_modal, complete_timeouts)
  /\ last_home' = HomeOp("add", new_timer.id) @@
                    [existed |-> new_timer.id \in ListIds(timers_list)]

\* The focus effect with route.params.new_timer: the timer is added and the
\* section of its category is expanded.
FocusWithNewTimer(new_timer) ==
  /\ alert = NoAlert
  /\ focus_new_timer(new_timer)
  /\ UNCHANGED <<screenVars, journalVars, duration, restart_timeouts, historyVars, alert>>

\* The steps of SpecHome drive the engines, the render window and the bulk
\* buttons of the custom timers; the default timer is listed and mounted in
\* its own section and is left idle (Spec drives the engine of a default
\* timer).
HomeFocusIds == CustomIds
HomeFocusSections == {"custom_work"}

NextHome ==
  \/ \E id \in HomeFocusIds :
        \/ HomePressStart(id)
        \/ HomeTick(id)
        \/ HomeTimerComplete(id)
        \/ OrphanTimerComplete(id)
        \/ HomeModalClose(id)
        \/ ListWindowLeave(id)
        \/ ListWindowEnter(id)
        \/ RequestDelete(id)
  \/ \E section \in SectionIds : ToggleSection(section)
  \/ \E section \in HomeFocusSections :
        \/ BulkAction("start", section)
        \/ BulkAction("pause", section)
        \/ RequestBulkReset(section)
  \/ CancelBulkReset
  \/ ConfirmBulkReset
  \/ CancelDelete
  \/ ConfirmDelete
  \/ \E new_timer \in NewTimers : FocusWithNewTimer(new_timer)

SpecHome == InitHome /\ [][NextHome]_vars
\* Every variable the types of SpecHome constrain.
TypeOKHome ==
  /\ remaining_time \in [HomeIds -> 0..MaxHomeDuration]
  /\ is_running \in [HomeIds -> BOOLEAN]
  /\ mounted \in [HomeIds -> BOOLEAN]
  /\ in_window \in [HomeIds -> BOOLEAN]
  /\ timer_refs \subseteq HomeIds
  /\ ListIds(timers_list) \subseteq HomeIds
  /\ alert.kind \in {"none", "bulk_reset", "delete"}

\* The step is a bulk action of the given kind.
IsBulk(action) == last_home'.op = "bulk" /\ last_home'.action = action

\* The identities of a sequence of ids.
Range(seq) == {seq[i] : i \in DOMAIN seq}

\* The engine of the id would leave its state on start(): it has a handle,
\* is not running and has time left.
Startable(id) ==
  Resolvable(timer_refs, mounted, id) /\ ~is_running[id] /\ remaining_time[id] > 0

-----------------------------------------------------------------------------
\* C11: the success count a bulk start reports equals the number of
\* identities of the set that were startable before it (handle present, not
\* running, remaining > 0): an identity whose engine ignores the start is
\* not counted.
C11_BulkStartCountsStartable ==
  [][IsBulk("start") =>
       last_home'.count =
         Cardinality({id \in Range(last_home'.timers) : Startable(id)})]_vars

\* The identities of the set of the bulk step that have no resolvable handle
\* before it.
Absent == {id \in Range(last_home'.timers) : ~Resolvable(timer_refs, mounted, id)}

\* The step leaves the engine of the id as the operation of the bulk action
\* leaves it.
Applied(action, id) ==
  /\ action = "start" =>
        /\ is_running'[id] = (is_running[id] \/ remaining_time[id] > 0)
        /\ remaining_time'[id] = remaining_time[id]
  /\ action = "pause" =>
        /\ is_running'[id] = FALSE
        /\ remaining_time'[id] = remaining_time[id]
  /\ action = "reset" =>
        /\ is_running'[id] = FALSE
        /\ remaining_time'[id] = duration[id]

\* C12: a bulk action skips exactly the identities without a resolvable
\* handle, does not count them and leaves their engines alone; every other
\* identity of the set has the operation applied and is counted, wherever
\* the skipped ones stand in the set; count plus skipped is at most the size
\* of the set.
C12_AbsentHandleSkipped ==
  [][last_home'.op = "bulk" =>
       /\ last_home'.skipped = Absent
       /\ last_home'.count = Cardinality(Range(last_home'.timers) \ Absent)
       /\ last_home'.count + Cardinality(last_home'.skipped)
            <= Len(last_home'.timers)
       /\ \A id \in Range(last_home'.timers) \ Absent :
            Applied(last_home'.action, id)
       /\ \A id \in Absent :
            /\ is_running'[id] = is_running[id]
            /\ remaining_time'[id] = remaining_time[id]
            /\ ~mounted'[id]]_vars

\* C12 witness: a bulk start whose first identity had no handle was skipped,
\* and the identity after it was started and counted.
C12_Witness ==
  /\ last_home.op = "bulk"
  /\ last_home.action = "start"
  /\ Len(last_home.timers) = 2
  /\ last_home.skipped = {last_home.timers[1]}
  /\ last_home.count = 1
  /\ is_running[last_home.timers[2]]

\* Every order in which the identities of a sequence can be processed.
Orders(seq) ==
  {p \in [DOMAIN seq -> Range(seq)] : Range(p) = Range(seq)}

\* C13: the result of a bulk action does not depend on the order in which
\* the identities are processed: for every order of the same set, from the
\* same engine states, forEach ends with the same engine states, the same
\* success count and the same skipped identities as the step taken.
C13_BulkOrderIndependent ==
  [][last_home'.op = "bulk" =>
       \A p \in Orders(last_home'.timers) :
          LET st == BulkFold(last_home'.action, p, BulkStart)
          IN /\ st.count = last_home'.count
             /\ st.skipped = last_home'.skipped
             /\ \A id \in Range(p) :
                  /\ is_running'[id] = st.run[id]
                  /\ remaining_time'[id] = st.rem[id]
                  /\ show_completion_modal'[id] = st.modal[id]]_vars

\* C13 witness: a bulk pause over two identities with handles whose
\* engines are in different states has run, so the two orders meet
\* different engines first.
C13_Witness ==
  /\ last_home.op = "bulk"
  /\ last_home.action = "pause"
  /\ Len(last_home.timers) = 2
  /\ last_home.count = 2
  /\ remaining_time[last_home.timers[1]] # remaining_time[last_home.timers[2]]

\* C14: a bulk reset asks for confirmation first. Opening the dialog and
\* declining it (Cancel) change no engine state, no list and no handle; a
\* bulk reset of the engines is the step that accepts the confirmation.
C14_BulkResetNeedsConfirmation ==
  [][/\ last_home'.op \in {"request_bulk_reset", "cancel_bulk_reset"} =>
          /\ engineVars' = engineVars
          /\ timers_list' = timers_list
          /\ timer_refs' = timer_refs
          /\ mounted' = mounted
     /\ last_home'.op = "request_bulk_reset" => alert'.kind = "bulk_reset"
     /\ IsBulk("reset") =>
          /\ alert.kind = "bulk_reset"
          /\ alert.timers = last_home'.timers
          /\ alert' = NoAlert]_vars

\* C14 witness: the confirmation of a bulk reset was declined over a set
\* with an engine in the middle of a run, which is still in the middle of
\* its run.
C14_Witness ==
  /\ last_home.op = "cancel_bulk_reset"
  /\ alert = NoAlert
  /\ \E id \in HomeIds :
        /\ mounted[id]
        /\ is_running[id]
        /\ remaining_time[id] < duration[id]

\* C15: collapsing or re-expanding a section neither destroys the engines
\* of its timers nor resets their state: remaining and running of every
\* listed timer are the same after toggle_section as before it.
C15_CollapseKeepsEngine ==
  [][last_home'.op = "toggle_section" =>
       \A id \in ListIds(timers_list) :
          /\ is_running'[id] = is_running[id]
          /\ remaining_time'[id] = remaining_time[id]]_vars

\* C16: after the handle of an identity is released (cleanup_timer_ref, on
\* deletion) the identity resolves to no handle, so a bulk action skips it;
\* that lasts for as long as no timer with the identity is listed. The
\* handles of all other identities are as they were before the release.
C16_ReleasedHandleAbsent ==
  /\ [](\A id \in HomeIds :
          id \notin ListIds(timers_list) =>
             /\ id \notin timer_refs
             /\ ~Resolvable(timer_refs, mounted, id))
  /\ [][last_home'.op = "delete" =>
          /\ ~Resolvable(timer_refs', mounted', last_home'.id)
          /\ \A other \in HomeIds \ {last_home'.id} :
                /\ other \in timer_refs' <=> other \in timer_refs
                /\ Resolvable(timer_refs', mounted', other)
                     <=> Resolvable(timer_refs, mounted, other)]_vars

\* C16 witness: the handle of a deleted timer is released while the other
\* custom timer and the default timer still resolve.
C16_Witness ==
  /\ last_home.op = "delete"
  /\ last_home.id \notin timer_refs
  /\ \E other \in CustomIds \ {last_home.id} :
        Resolvable(timer_refs, mounted, other)
  /\ Resolvable(timer_refs, mounted, "default-1")

\* C17: deleting a timer cancels everything its engine has scheduled: the
\* completion hook (handle_timer_complete, which adds the history entry)
\* never runs for an identity that is no longer listed, also when the timer
\* was deleted between reaching 0 and the delayed hook.
C17_DeleteCancelsCompletion ==
  [][last_home'.op \in {"complete", "orphan_complete"} =>
       last_home'.id \in ListIds(timers_list)]_vars

\* The list without its i-th entity.
WithoutIndex(list, i) == SubSeq(list, 1, i - 1) \o SubSeq(list, i + 1, Len(list))

\* C19: deleting a custom timer asks for confirmation first. Opening the
\* dialog and declining it leave the list, the handles and the engines as
\* they are; accepting it releases the handle of the timer and removes
\* exactly the entity with that id, the others staying in their order.
C19_DeleteNeedsConfirmation ==
  [][/\ last_home'.op \in {"request_delete", "cancel_delete"} =>
          /\ engineVars' = engineVars
          /\ timers_list' = timers_list
          /\ timer_refs' = timer_refs
          /\ mounted' = mounted
     /\ last_home'.op = "delete" =>
          /\ alert = [kind |-> "delete", id |-> last_home'.id]
          /\ last_home'.id \notin timer_refs'
          /\ \E i \in DOMAIN timers_list :
                /\ timers_list[i].id = last_home'.id
                /\ ~timers_list[i].is_default
                /\ timers_list' = WithoutIndex(timers_list, i)]_vars

\* C19 witness: a confirmed delete removed one of two custom timers; the
\* default timer and the other custom timer are listed in their order.
C19_Witness ==
  /\ last_home.op = "delete"
  /\ last_home.id \in CustomIds
  /\ Len(timers_list) = 2
  /\ timers_list[1].id \in DefaultIds
  /\ timers_list[2].id \in CustomIds \ {last_home.id}
  /\ last_home.id \notin timer_refs

\* C20: the ids of the list are pairwise distinct in every state. Adding a
\* timer whose id is listed leaves the list as it is; adding a timer with a
\* new id appends exactly one entity with that id and is_default = FALSE.
C20_AddKeepsIdsDistinct ==
  /\ [](\A i, j \in DOMAIN timers_list :
          timers_list[i].id = timers_list[j].id => i = j)
  /\ [][last_home'.op = "add" =>
          IF last_home'.id \in ListIds(timers_list)
          THEN timers_list' = timers_list
          ELSE /\ Len(timers_list') = Len(timers_list) + 1
               /\ SubSeq(timers_list', 1, Len(timers_list)) = timers_list
               /\ timers_list'[Len(timers_list')] =
                    [id |-> last_home'.id, is_default |-> FALSE]]_vars

\* C20 witness: a timer whose id was listed was added again, and the list
\* holds the default timer and both custom timers once each.
C20_Witness ==
  /\ last_home.op = "add"
  /\ last_home.existed
  /\ Len(timers_list) = 3
  /\ ListIds(timers_list) = HomeIds

-----------------------------------------------------------------------------
\* The delete operation by itself. In the HomeScreen the only caller of
\* handle_delete_timer is the Delete button of a SwipeableTimer, which only
\* custom timers are rendered with. SpecDelete adds the call of the handler
\* with the identity of any listed timer, default ones included, which is
\* the operation the claims about delete(identity) are stated for.
InvokeDelete(timer_id) ==
  /\ alert = NoAlert
  /\ timer_id \in ListIds(timers_list)
  /\ handle_delete_timer(timer_id)
  /\ UNCHANGED <<screenVars, journalVars, duration, restart_timeouts, historyVars, alert>>

NextDelete ==
  \/ NextHome
  \/ \E timer_id \in HomeIds : InvokeDelete(timer_id)

SpecDelete == InitHome /\ [][NextDelete]_vars

\* Under SpecHome, where delete is reached through the user interface only,
\* every default timer stays listed.
DefaultTimersStay == DefaultIds \subseteq ListIds(timers_list)

-----------------------------------------------------------------------------
\* The history journal (utils/history.js) over AsyncStorage.
\*
\* The clock counts half days: completion_time is the clock value at the
\* call, completion_date the UTC date of it (toISOString().split('T')[0]).
\* The local calendar date of the device differs from the UTC date by the
\* timezone offset. JSON.stringify followed by JSON.parse gives back a list
\* of entries as it was (strings and finite numbers only), so the stored
\* array is kept as the list itself; the stored values that are not such an
\* array are the kinds "null" (no value), "invalid_json" and "not_array".

MaxClock == 2
MaxAdds == 2
DayLength == 2

TzOffsets == {0 - 1, 0, 1}

\* format_date_for_grouping(date): the UTC date of a clock value.
format_date_for_grouping(time, offset) == time \div DayLength

\* The calendar date of a clock value on the device.
calendar_date(time, offset) == (time + offset) \div DayLength

\* The arguments of add_timer_to_history: the name, duration and category
\* props of the Timer; the category can be empty or absent.
AddArgs ==
  {[name |-> "Focus", duration |-> 1, category |-> "Work"],
   [name |-> "Break", duration |-> 2, category |-> ""],
   [name |-> "Break", duration |-> 2, category |-> "undefined"]}

\* category || 'Uncategorized'
category_or_default_keeps(category) == category

category_or_default(category) ==
  IF category \in {"", "undefined"} THEN "Uncategorized" ELSE category

\* history_entry of add_timer_to_history.
history_entry(args, id, time, offset) ==
  [id |-> id,
   timer_name |-> args.name,
   original_duration |-> args.duration,
   category |-> category_or_default(args.category),
   completion_time |-> time,
   completion_date |-> format_date_for_grouping(time, offset)]

\* load_history: [] when getItem rejects, when there is no value, when
\* JSON.parse throws and when the parsed value is not an array.
load_history_ignores_read_error(store, read_ok) ==
  IF store.kind = "array" THEN store.list ELSE <<>>

load_history(store, read_ok) ==
  IF ~read_ok THEN <<>>
  ELSE IF store.kind = "array" THEN store.list
  ELSE <<>>

\* [history_entry, ...existing_history]
updated_history(entry, existing_history) == <<entry>> \o existing_history

\* The ids of the entries of a stored value.
StoredIds(store) == {store.list[i].id : i \in DOMAIN store.list}

\* The record of a journal operation in last_journal.
JournalOp(op, ok) == [op |-> op, ok |-> ok]

\* The variables of the timers and of the HomeScreen.
restVars == <<duration, engineVars, historyVars, homeVars, screenVars>>

\* add_timer_to_history up to its second await: the entry is created, the
\* stored value is read (load_history) and the updated list is handed to
\* setItem. The call records the stored value it started from.
AddStart(call, args, read_ok) ==
  /\ adds[call].pc = "idle"
  /\ next_history_id < MaxAdds
  /\ LET entry == history_entry(args, next_history_id + 1, clock, tz_offset)
     IN adds' = [adds EXCEPT ![call] =
                   [pc |-> "saving", args |-> args, entry |-> entry,
                    read_ok |-> read_ok, before |-> history_store,
                    updated |-> updated_history(
                                  entry, load_history(history_store, read_ok))]]
  /\ next_history_id' = next_history_id + 1
  /\ last_journal' = JournalOp("add_start", read_ok)
  /\ UNCHANGED <<restVars, history_store, clock, tz_offset, cleared, fresh_add,
                 group_input, group_output, hook_adds, add_attempts, on_complete_calls>>

\* save_history_to_storage settles: setItem replaces the stored value, or
\* rejects and leaves it; add_timer_to_history returns the outcome.
AddSave(call, write_ok) ==
  /\ adds[call].pc = "saving"
  /\ history_store' =
       IF write_ok THEN [kind |-> "array", list |-> adds[call].updated]
       ELSE history_store
  /\ adds' = [adds EXCEPT ![call] = NoCall]
  /\ fresh_add' = IF write_ok THEN [pc |-> "returned", args |-> adds[call].args]
                  ELSE fresh_add
  /\ last_journal' = JournalOp("add", write_ok) @@
                       [call |-> call, entry |-> adds[call].entry]
  /\ UNCHANGED <<restVars, clock, tz_offset, next_history_id, cleared,
                 group_input, group_output, hook_adds, add_attempts, on_complete_calls>>

\* load_history called by the HistoryScreen.
Load(read_ok) ==
  /\ last_journal' = JournalOp("load", read_ok) @@
                       [result |-> load_history(history_store, read_ok)]
  /\ UNCHANGED <<restVars, history_store, adds, clock, tz_offset, next_history_id,
                 cleared, fresh_add, group_input, group_output, hook_adds,
                 add_attempts, on_complete_calls>>

\* clear_history: removeItem removes the stored value, or rejects.
Clear(remove_ok) ==
  /\ history_store' = IF remove_ok THEN NoValue ELSE history_store
  /\ cleared' = IF remove_ok THEN cleared \cup StoredIds(history_store)
                ELSE cleared
  /\ fresh_add' = NoCall
  /\ last_journal' = JournalOp("clear", remove_ok)
  /\ UNCHANGED <<restVars, adds, clock, tz_offset, next_history_id,
                 group_input, group_output, hook_adds, add_attempts, on_complete_calls>>

\* Half a day passes.
ClockAdvance ==
  /\ clock < MaxClock
  /\ clock' = clock + 1
  /\ last_journal' = JournalOp("clock", TRUE)
  /\ UNCHANGED <<restVars, history_store, adds, tz_offset, next_history_id, cleared,
                 fresh_add, group_input, group_output, hook_adds, add_attempts, on_complete_calls>>

\* The timers and the HomeScreen at rest: the journal specifications leave
\* them as they are.
TimersAtRest ==
  /\ duration = [id \in TimerIds |-> 1]
  /\ remaining_time = duration
  /\ is_running = [id \in TimerIds |-> FALSE]
  /\ show_completion_modal = [id \in TimerIds |-> FALSE]
  /\ interval_ref = [id \in TimerIds |-> FALSE]
  /\ live_intervals = [id \in TimerIds |-> 0]
  /\ complete_timeouts = [id \in TimerIds |-> 0]
  /\ restart_timeouts = [id \in TimerIds |-> {}]
  /\ complete_calls = [id \in TimerIds |-> 0]
  /\ zero_hits = [id \in TimerIds |-> 0]
  /\ run_base = [id \in TimerIds |-> 0]
  /\ ticks_in_run = [id \in TimerIds |-> 0]
  /\ paused_in_run = [id \in TimerIds |-> FALSE]
  /\ held = [id \in TimerIds |-> -1]
  /\ last_op = [op |-> "mount", id |-> "default-1", rem |-> 1,
                run |-> FALSE, modal |-> FALSE, pending |-> 0, restarts |-> {},
                held |-> -1]
  /\ timers_list = <<[id |-> "default-1", is_default |-> TRUE],
                     [id |-> "custom-1", is_default |-> FALSE]>>
  /\ expanded_sections = [s \in SectionIds |-> TRUE]
  /\ timer_refs = TimerIds
  /\ mounted = [id \in TimerIds |-> TRUE]
  /\ in_window = [id \in TimerIds |-> TRUE]
  /\ orphan_timeouts = [id \in TimerIds |-> 0]
  /\ alert = NoAlert
  /\ last_home = NoHomeOp

\* The journal on a device in some timezone, with nothing stored or with a
\* stored value that is not a list of entries.
InitJournal ==
  /\ TimersAtRest
  /\ history_store \in
       {NoValue, [kind |-> "invalid_json", list |-> <<>>],
        [kind |-> "not_array", list |-> <<>>]}
  /\ adds = [c \in AddCalls |-> NoCall]
  /\ clock = 0
  /\ tz_offset \in TzOffsets
  /\ next_history_id = 0
  /\ cleared = {}
  /\ fresh_add = NoCall
  /\ last_journal = NoJournalOp
  /\ group_input = <<>>
  /\ group_output = <<>>
  /\ hook_adds = [id \in TimerIds |-> 0]
  /\ add_attempts = [id \in TimerIds |-> 0]
  /\ on_complete_calls = [id \in TimerIds |-> 0]
  /\ ScreensAtRest

NextJournal ==
  \/ \E call \in AddCalls, args \in AddArgs, read_ok \in BOOLEAN :
        AddStart(call, args, read_ok)
  \/ \E call \in AddCalls, write_ok \in BOOLEAN : AddSave(call, write_ok)
  \/ \E read_ok \in BOOLEAN : Load(read_ok)
  \/ \E remove_ok \in BOOLEAN : Clear(remove_ok)
  \/ ClockAdvance

SpecJournal == InitJournal /\ [][NextJournal]_vars

\* The first element of a loaded list is the entry of the add that
\* returned: the given name and duration, the given category or
\* "Uncategorized" for an empty or absent one, and a generated id,
\* completion_time and completion_date.
FirstIsFreshAdd(result) ==
  /\ result # <<>>
  /\ result[1].timer_name = fresh_add.args.name
  /\ result[1].original_duration = fresh_add.args.duration
  /\ result[1].category =
       (IF fresh_add.args.category \in {"", "undefined"}
        THEN "Uncategorized" ELSE fresh_add.args.category)
  /\ result[1].id \in 1..next_history_id
  /\ result[1].completion_time \in 0..clock
  /\ result[1].completion_date \in 0..(clock \div DayLength)

\* C21 as stated: after an add returned success, with no other journal
\* operation in between, the following load returns a list whose first
\* element is the added entry.
C21_RoundTrip ==
  [][(last_journal'.op = "load" /\ fresh_add.pc = "returned") =>
       FirstIsFreshAdd(last_journal'.result)]_vars

\* C21 amended: the same, for a load whose read of the store succeeds (a
\* load whose read fails returns the empty list).
C21_RoundTripWhenReadSucceeds ==
  [][(last_journal'.op = "load" /\ last_journal'.ok
        /\ fresh_add.pc = "returned") =>
       FirstIsFreshAdd(last_journal'.result)]_vars

\* C21 witness: an add with an empty category returned success on top of an
\* earlier entry, and the load after it returned the new entry first, with
\* the category "Uncategorized".
C21_Witness ==
  /\ last_journal.op = "load"
  /\ last_journal.ok
  /\ fresh_add.pc = "returned"
  /\ fresh_add.args.category = ""
  /\ Len(last_journal.result) = 2
  /\ last_journal.result[1].category = "Uncategorized"
  /\ last_journal.result[1].timer_name = "Break"

\* The call of the add that returns in the step.
Returning == adds[last_journal'.call]

\* C22: a successful add only prepends: when nothing else changed the store
\* during the call, the list load() returns after the add is the new entry
\* followed by the list load() returned before it.
C22_AddOnlyPrepends ==
  [][(/\ last_journal'.op = "add"
      /\ last_journal'.ok
      /\ history_store = Returning.before) =>
       load_history(history_store', TRUE) =
         <<last_journal'.entry>> \o load_history(history_store, TRUE)]_vars

\* The load step of the call failed: the read was rejected, or the stored
\* value was not a parseable array.
LoadStepFailed(call) ==
  \/ ~adds[call].read_ok
  \/ adds[call].before.kind \in {"invalid_json", "not_array"}

\* C23: when the load step or the write step of an add fails, the add
\* returns failure and the stored value is what it was before the call.
C23_FailedAddLeavesStore ==
  [][(/\ last_journal'.op = "add"
      /\ LoadStepFailed(last_journal'.call) \/ ~last_journal'.ok) =>
       /\ ~last_journal'.ok
       /\ history_store' = Returning.before]_vars

\* C24: load() returns the empty list when the store has no value, when
\* the read fails and when the stored value does not parse as an array, and
\* the stored list otherwise; it leaves the store as it is.
C24_LoadFailsOpen ==
  [][last_journal'.op = "load" =>
       /\ history_store' = history_store
       /\ (~last_journal'.ok \/ history_store.kind # "array")
            => last_journal'.result = <<>>
       /\ (last_journal'.ok /\ history_store.kind = "array")
            => last_journal'.result = history_store.list]_vars

\* C24 witness: a load whose read failed returned the empty list over a
\* stored journal of two entries, which is still stored.
C24_Witness ==
  /\ last_journal.op = "load"
  /\ ~last_journal.ok
  /\ last_journal.result = <<>>
  /\ history_store.kind = "array"
  /\ Len(history_store.list) = 2

\* C25: an entry that was stored when a clear succeeded is never stored
\* again: an add that was in flight when the clear ran does not bring it
\* back.
C25_ClearedEntriesStayGone ==
  StoredIds(history_store) \cap cleared = {}

-----------------------------------------------------------------------------
\* Grouping and statistics of the HistoryScreen: pure functions of a list of
\* entries. Dates are day numbers; the ISO date strings the code compares
\* (localeCompare, ===) have equal length and compare as their days do.

MaxGroupLen == 3

\* date_b.localeCompare(date_a) < 0: the section of date_a comes first.
date_comes_first_ascending(date_a, date_b) == date_a < date_b

date_comes_first(date_a, date_b) == date_a > date_b

\* Object.entries(grouped).sort(...): the dates of the groups, sorted.
RECURSIVE sorted_dates(_)
sorted_dates(dates) ==
  IF dates = {} THEN <<>>
  ELSE LET first == CHOOSE d \in dates :
                      \A other \in dates \ {d} : date_comes_first(d, other)
       IN <<first>> \o sorted_dates(dates \ {first})

\* new Date(b.completion_time) - new Date(a.completion_time) > 0: entry b
\* is moved before entry a.
moves_before(a, b) == b.completion_time > a.completion_time

\* entries.sort(...) of one group: a stable sort; an entry is placed behind
\* every entry already placed that it does not move before.
RECURSIVE insert_entry(_, _)
insert_entry(entry, sorted) ==
  IF sorted = <<>> THEN <<entry>>
  ELSE IF moves_before(Head(sorted), entry)
       THEN <<entry>> \o sorted
       ELSE <<Head(sorted)>> \o insert_entry(entry, Tail(sorted))

RECURSIVE sort_entries(_)
sort_entries(entries) ==
  IF entries = <<>> THEN <<>>
  ELSE insert_entry(entries[Len(entries)],
                    sort_entries(SubSeq(entries, 1, Len(entries) - 1)))

\* groups[date]: the entries of the date, in the order of the list (reduce).
group_of_date_first_only(history, date) ==
  LET all == SelectSeq(history, LAMBDA entry : entry.completion_date = date)
  IN SubSeq(all, 1, 1)

group_of_date(history, date) ==
  SelectSeq(history, LAMBDA entry : entry.completion_date = date)

\* group_history_by_date(history)
group_history_by_date(history) ==
  IF history = <<>> THEN <<>>
  ELSE LET dates == sorted_dates(
                      {history[i].completion_date : i \in DOMAIN history})
       IN [k \in DOMAIN dates |->
             [date |-> dates[k],
              data |-> sort_entries(group_of_date(history, dates[k]))]]

\* section.data.reduce((sum, entry) => sum + entry.original_duration, 0)
RECURSIVE total_duration(_)
total_duration(entries) ==
  IF entries = <<>> THEN 0
  ELSE Head(entries).original_duration + total_duration(Tail(entries))

\* render_section_header: the count and the total time shown for a section.
section_header(section) ==
  [entries_count |-> Len(section.data),
   total_time |-> total_duration(section.data)]

\* history.filter(entry => entry.completion_date === today), with today the
\* UTC date of the clock.
today_entries_all(history, time, offset) == history

today_entries(history, time, offset) ==
  SelectSeq(history,
            LAMBDA entry :
              entry.completion_date = format_date_for_grouping(time, offset))

get_today_completion_count(history, time, offset) ==
  Len(today_entries(history, time, offset))

get_today_total_time(history, time, offset) ==
  total_duration(today_entries(history, time, offset))

\* The lists the functions are applied to: entries as add_timer_to_history
\* makes them, with distinct ids, in any order of their completion times.
RECURSIVE InputLists(_)
InputLists(len) ==
  IF len = 0 THEN {<<>>}
  ELSE LET shorter == InputLists(len - 1)
       IN shorter \cup
          {Append(list, history_entry(args, Len(list) + 1, time, 0)) :
             list \in {l \in shorter : Len(l) = len - 1},
             args \in {a \in AddArgs : a.category # "undefined"},
             time \in 0..MaxClock}

InitGroup ==
  /\ TimersAtRest
  /\ history_store = NoValue
  /\ adds = [c \in AddCalls |-> NoCall]
  /\ clock \in 0..MaxClock
  /\ tz_offset \in TzOffsets
  /\ next_history_id = 0
  /\ cleared = {}
  /\ fresh_add = NoCall
  /\ last_journal = NoJournalOp
  /\ group_input \in InputLists(MaxGroupLen)
  /\ group_output = <<>>
  /\ hook_adds = [id \in TimerIds |-> 0]
  /\ add_attempts = [id \in TimerIds |-> 0]
  /\ on_complete_calls = [id \in TimerIds |-> 0]
  /\ ScreensAtRest

\* load_history_data: the sections of the list, with the header of each.
GroupHistory ==
  /\ group_output = <<>>
  /\ LET sections == group_history_by_date(group_input)
     IN group_output' =
          [kind |-> "sections", sections |-> sections,
           headers |-> [k \in DOMAIN sections |-> section_header(sections[k])]]
  /\ UNCHANGED <<restVars, history_store, adds, clock, tz_offset,
                 next_history_id, cleared, fresh_add, last_journal,
                 group_input, hook_adds, add_attempts, on_complete_calls>>

\* render_header: the statistics of today.
TodayStatistics ==
  /\ group_output = <<>>
  /\ group_output' =
       [kind |-> "today",
        today_count |-> get_today_completion_count(group_input, clock, tz_offset),
        today_total_time |-> get_today_total_time(group_input, clock, tz_offset)]
  /\ UNCHANGED <<restVars, history_store, adds, clock, tz_offset,
                 next_history_id, cleared, fresh_add, last_journal,
                 group_input, hook_adds, add_attempts, on_complete_calls>>

NextGroup == GroupHistory \/ TodayStatistics

SpecGroup == InitGroup /\ [][NextGroup]_vars

\* The positions of the entries of a list that have the date.
OnDate(history, date) ==
  {i \in DOMAIN history : history[i].completion_date = date}

\* The sum of original_duration over a set of positions of a list.
RECURSIVE SumAt(_, _)
SumAt(history, positions) ==
  IF positions = {} THEN 0
  ELSE LET i == CHOOSE p \in positions : TRUE
       IN history[i].original_duration + SumAt(history, positions \ {i})

\* The sections computed by the last application of group_history_by_date.
Sections == group_output.sections

\* C26: the sections of group_history_by_date are ordered by date strictly
\* descending, and the entries of each section by completion_time
\* descending, whatever the order of the input list.
C26_SectionsOrdered ==
  group_output # <<>> /\ group_output.kind = "sections" =>
    /\ \A k, l \in DOMAIN Sections :
          k < l => Sections[k].date > Sections[l].date
    /\ \A k \in DOMAIN Sections :
          \A i, j \in DOMAIN Sections[k].data :
             i < j => Sections[k].data[i].completion_time
                        >= Sections[k].data[j].completion_time

\* C26 witness: a list that starts with its oldest entry and goes on with
\* two entries of the next day, the older one first, was grouped into two
\* sections.
C26_Witness ==
  /\ group_output # <<>>
  /\ group_output.kind = "sections"
  /\ Len(group_input) = 3
  /\ Len(Sections) = 2
  /\ group_input[1].completion_time < group_input[2].completion_time
  /\ group_input[2].completion_time < group_input[3].completion_time
  /\ Len(Sections[2].data) = 2

\* C27: group_history_by_date partitions its input: one section per
\* distinct completion_date, none of them empty, and every entry of the
\* input in exactly the section of its date.
C27_SectionsPartition ==
  group_output # <<>> /\ group_output.kind = "sections" =>
    /\ {Sections[k].date : k \in DOMAIN Sections}
         = {group_input[i].completion_date : i \in DOMAIN group_input}
    /\ \A k, l \in DOMAIN Sections :
          Sections[k].date = Sections[l].date => k = l
    /\ \A k \in DOMAIN Sections :
          /\ Sections[k].data # <<>>
          /\ Len(Sections[k].data)
               = Cardinality(OnDate(group_input, Sections[k].date))
          /\ {Sections[k].data[i] : i \in DOMAIN Sections[k].data}
               = {group_input[i] : i \in OnDate(group_input, Sections[k].date)}

\* C27 witness: a list of three entries on two dates was grouped into a
\* section of two entries and a section of one.
C27_Witness ==
  /\ group_output # <<>>
  /\ group_output.kind = "sections"
  /\ Len(group_input) = 3
  /\ Len(Sections) = 2
  /\ Len(Sections[1].data) = 2
  /\ Len(Sections[2].data) = 1

\* The calendar date of the device at the completion of an entry.
CalendarDateOf(entry) == calendar_date(entry.completion_time, tz_offset)

\* C28: for every section of the stored journal, the displayed count is
\* the number of entries with the date of the section and the displayed
\* total the sum of their durations; and entries added on the same calendar
\* date are in one section.
C28_SectionTotals ==
  LET history == load_history(history_store, TRUE)
      sections == group_history_by_date(history)
  IN /\ \A k \in DOMAIN sections :
          /\ section_header(sections[k]).entries_count
               = Cardinality(OnDate(history, sections[k].date))
          /\ section_header(sections[k]).total_time
               = SumAt(history, OnDate(history, sections[k].date))
     /\ \A i, j \in DOMAIN history :
          CalendarDateOf(history[i]) = CalendarDateOf(history[j]) =>
             \E k \in DOMAIN sections :
                {history[i], history[j]}
                  \subseteq {sections[k].data[n] : n \in DOMAIN sections[k].data}

HookOutcomes == {"true", "false", "throws"}

\* The journal variables a completion hook leaves alone.
hookRest == <<history_store, adds, clock, tz_offset, next_history_id, cleared,
              fresh_add, group_input, group_output>>

\* What leaves handle_timer_complete as an exception: nothing, the only call
\* that can fail is inside try { ... } catch (error) { console.error(...) }.
hook_raises(outcome) == FALSE

\* The synchronous part of handle_timer_complete, up to the await: the state
\* setters of the engine and the call of add_timer_to_history.
HookTimerComplete(id) ==
  /\ complete_timeouts[id] > 0
  /\ Commit(id, FALSE, remaining_time[id], TRUE)
  /\ complete_timeouts' = [complete_timeouts EXCEPT ![id] = @ - 1]
  /\ complete_calls' = [complete_calls EXCEPT ![id] = @ + 1]
  /\ Note(id, "complete", FALSE)
  /\ hook_adds' = [hook_adds EXCEPT ![id] = @ + 1]
  /\ add_attempts' = [add_attempts EXCEPT ![id] = @ + 1]
  /\ last_journal' = [op |-> "hook_add", id |-> id]
  /\ UNCHANGED <<screenVars, on_complete_calls, hookRest, homeVars, duration, restart_timeouts, zero_hits>>

HookAddSettles_retries(id, outcome) ==
  /\ hook_adds[id] > 0
  /\ hook_adds' = [hook_adds EXCEPT ![id] = @ - 1]
  /\ complete_timeouts' = [complete_timeouts EXCEPT ![id] =
        IF outcome = "true" THEN @ ELSE @ + 1]
  /\ last_journal' = [op |-> "hook_settled", id |-> id, outcome |-> outcome,
                      raised |-> hook_raises(outcome)]
  /\ on_complete_calls' = [on_complete_calls EXCEPT ![id] = @ + 1]
  /\ UNCHANGED <<screenVars, hookRest, add_attempts, homeVars, duration,
                 historyVars, remaining_time, is_running, show_completion_modal,
                 interval_ref, live_intervals, restart_timeouts>>

HookAddSettles_skips_on_failure(id, outcome) ==
  /\ hook_adds[id] > 0
  /\ hook_adds' = [hook_adds EXCEPT ![id] = @ - 1]
  /\ last_journal' = [op |-> "hook_settled", id |-> id, outcome |-> outcome,
                      raised |-> hook_raises(outcome)]
  /\ on_complete_calls' = [on_complete_calls EXCEPT ![id] =
        IF outcome = "true" THEN @ + 1 ELSE @]
  /\ UNCHANGED <<screenVars, hookRest, add_attempts, homeVars, duration,
                 historyVars, engineVars>>

\* The rest of handle_timer_complete, after the await: the outcome is logged
\* and onComplete, which no caller passes a state change of the engine to,
\* is called.
HookAddSettles(id, outcome) ==
  /\ hook_adds[id] > 0
  /\ hook_adds' = [hook_adds EXCEPT ![id] = @ - 1]
  /\ last_journal' = [op |-> "hook_settled", id |-> id, outcome |-> outcome,
                      raised |-> hook_raises(outcome)]
  /\ on_complete_calls' = [on_complete_calls EXCEPT ![id] = @ + 1]
  /\ UNCHANGED <<screenVars, hookRest, add_attempts, homeVars, duration,
                 historyVars, engineVars>>

NextHook ==
  \E id \in FocusIds :
    \/ PressStart(id)
    \/ PressPause(id)
    \/ PressReset(id)
    \/ RefStart(id)
    \/ RefPause(id)
    \/ RefReset(id)
    \/ Tick(id)
    \/ HookTimerComplete(id)
    \/ \E outcome \in HookOutcomes : HookAddSettles(id, outcome)
    \/ ModalClose(id)
    \/ ModalViewHistory(id)
    \/ ModalRestart(id)
    \/ RestartTimeout(id)

SpecHook == Init /\ [][NextHook]_vars

\* C30: a journal write that fails in the completion hook does not alter
\* the engine (a Completed engine stays Completed), nothing is raised out of
\* the hook, and the engine makes exactly one add attempt per completion.
C30_HookFailureLeavesEngine ==
  /\ [](\A id \in TimerIds :
         /\ add_attempts[id] = complete_calls[id]
         /\ add_attempts[id] + complete_timeouts[id] = zero_hits[id])
  /\ [](last_journal.op = "hook_settled" => ~last_journal.raised)
  /\ [][\A id \in TimerIds :
          hook_adds'[id] < hook_adds[id] =>
            /\ engineVars' = engineVars
            /\ duration' = duration
            /\ add_attempts' = add_attempts
            /\ get_state_text(remaining_time'[id], is_running'[id])
                 = get_state_text(remaining_time[id], is_running[id])]_vars

\* C30 witness: the add of the second completion of an engine has failed,
\* the engine is Completed and has made two add attempts.
C30_Witness ==
  \E id \in FocusIds :
    /\ last_journal.op = "hook_settled"
    /\ last_journal.id = id
    /\ last_journal.outcome = "false"
    /\ hook_adds[id] = 0
    /\ remaining_time[id] = 0
    /\ ~is_running[id]
    /\ zero_hits[id] = 2
    /\ add_attempts[id] = 2

\* ---------------------------------------------------------------------------
\* Restart from the completion modal (components/Timer.js,
\* handle_modal_restart).

\* C31: after Restart was pressed on the completion modal of a Completed
\* timer and its delayed start has run, the engine is Running with
\* remaining_time = duration minus the ticks that fired since, and the
\* completion modal is hidden.
C31_RestartRuns ==
  (last_op.op = "restart_timeout" /\ last_op.restarts = {0}) =>
    /\ is_running[Acted]
    /\ remaining_time[Acted] = duration[Acted] - ticks_in_run[Acted]
    /\ ~show_completion_modal[Acted]

\* ---------------------------------------------------------------------------
\* Tick sources of an engine (components/Timer.js, the countdown effect).

\* C33: an engine owns at most one live interval, and none whenever it is
\* not running or remaining_time = 0; every tick decreases remaining_time
\* by exactly 1.
C33_OneTickSource ==
  /\ [](\A id \in TimerIds :
         /\ live_intervals[id] <= 1
         /\ (~is_running[id] \/ remaining_time[id] = 0) => live_intervals[id] = 0
         /\ interval_ref[id] <=> live_intervals[id] = 1)
  /\ [][\A id \in TimerIds :
          (last_op'.op = "tick" /\ last_op'.id = id) =>
             /\ is_running[id]
             /\ remaining_time'[id] = remaining_time[id] - 1]_vars

\* C33 witness: an engine that was paused and started again has ticked,
\* still runs, and owns one interval.
C33_Witness ==
  /\ last_op.op = "tick"
  /\ paused_in_run[Acted]
  /\ is_running[Acted]
  /\ remaining_time[Acted] = last_op.rem - 1
  /\ live_intervals[Acted] = 1

\* ---------------------------------------------------------------------------
\* Several engines at once: every Timer component has its own useState
\* cells and its own interval (components/Timer.js 18-27), and the list
\* renders one component per entity (screens/HomeScreen.js, render_timer_item).

\* Start, pause, reset, tick and completion of every engine, interleaved.
NextTwo ==
  \E id \in TimerIds :
    \/ PressStart(id)
    \/ PressPause(id)
    \/ PressReset(id)
    \/ Tick(id)
    \/ HandleTimerComplete(id)

SpecTwo == Init /\ [][NextTwo]_vars

\* C34: an operation on the engine of one identity leaves remaining_time and
\* is_running of every engine of another identity unchanged, under every
\* interleaving of the ticks of several running engines.
C34_EnginesIndependent ==
  [][\A id \in TimerIds :
       last_op'.id = id =>
         \A other \in TimerIds \ {id} :
            /\ remaining_time'[other] = remaining_time[other]
            /\ is_running'[other] = is_running[other]]_vars

\* C34 witness: one engine has ticked while another engine was running
\* with fewer seconds elapsed, and the other engine still runs.
C34_Witness ==
  \E other \in TimerIds \ {Acted} :
    /\ last_op.op = "tick"
    /\ is_running[other]
    /\ ticks_in_run[other] > 0
    /\ ticks_in_run[Acted] > ticks_in_run[other]
    /\ remaining_time[other] = duration[other] - ticks_in_run[other]

\* ---------------------------------------------------------------------------
\* Overlapping calls of add_timer_to_history (utils/history.js 127-138).

\* C35: no completion is lost when add calls overlap: with no clear, an add
\* that read the journal successfully and returns success leaves every entry
\* stored before its write in the journal and adds its own, so that the
\* journal holds one entry per successful add once all have returned.
C35_NoCompletionLost ==
  [][(/\ last_journal'.op = "add"
      /\ last_journal'.ok
      /\ cleared = {}
      /\ Returning.read_ok
      /\ Returning.before.kind \in {"null", "array"}) =>
       StoredIds(history_store) \cup {last_journal'.entry.id}
         \subseteq StoredIds(history_store')]_vars

\* ---------------------------------------------------------------------------
\* The add-timer form (screens/AddTimerScreen.js).
\*
\* The duration field holds text; parseFloat makes a number of minutes of
\* it. The model keeps the number in hundredths of a minute, the precision
\* of a text such as "0.01", and computes with it exactly.

\* Largest number of hundredths of a minute typed, besides those around the
\* limit of the form.
MaxFormValue == 10

SecondsPerMinute == 60
MaxMinutes == 999
HundredthsPerMinute == 100

\* The numbers typed into the duration field, in hundredths of a minute.
FormValues ==
  (0..MaxFormValue) \cup
  {MaxMinutes * HundredthsPerMinute - 1, MaxMinutes * HundredthsPerMinute,
   MaxMinutes * HundredthsPerMinute + 1}

\* The texts of the duration field: empty, not a number, or a number.
DurationTexts ==
  {[kind |-> "empty", value |-> 0], [kind |-> "nan", value |-> 0]}
    \cup {[kind |-> "number", value |-> v] : v \in FormValues}

\* The fields of the form: whether timer_name.trim() is not empty, the
\* duration text, and whether get_final_category() is not empty.
FormInputs ==
  [kind : {"fields"}, has_name : BOOLEAN, duration_minutes : DurationTexts,
   has_category : BOOLEAN]

\* validate_form: the alert it shows, or "valid".
validate_form(fields) ==
  IF ~fields.has_name THEN "Please enter a timer name"
  ELSE IF fields.duration_minutes.kind = "empty" THEN "Please enter a duration"
  ELSE IF fields.duration_minutes.kind = "nan"
          \/ fields.duration_minutes.value <= 0
       THEN "Please enter a valid duration (greater than 0)"
  ELSE IF fields.duration_minutes.value > MaxMinutes * HundredthsPerMinute
       THEN "Duration cannot exceed 999 minutes"
  ELSE IF ~fields.has_category THEN "Please select a category"
  ELSE "valid"

\* Math.floor(parseFloat(duration_minutes) * 60)
duration_seconds(value) == (value * SecondsPerMinute) \div HundredthsPerMinute

\* onChangeText and the category buttons: the fields take any value.
EditForm(fields) ==
  /\ form_input' = fields
  /\ form_input' # form_input
  /\ UNCHANGED <<timerVars, journalVars, form_output, stored_timers, saves,
                 last_save, snapshot>>

\* handle_save_timer rejected by validate_form: an alert, the fields stay.
SaveRejected ==
  /\ validate_form(form_input) # "valid"
  /\ form_output' = [kind |-> "rejected", alert |-> validate_form(form_input)]
  /\ UNCHANGED <<timerVars, journalVars, form_input, stored_timers, saves,
                 last_save, snapshot>>

\* handle_save_timer on a valid form: the timer entity goes to the Home
\* screen as the new_timer parameter and the fields are emptied.
SaveTimer ==
  /\ validate_form(form_input) = "valid"
  /\ form_output' =
       [kind |-> "timer",
        minutes |-> form_input.duration_minutes.value,
        duration |-> duration_seconds(form_input.duration_minutes.value)]
  /\ form_input' = EmptyForm
  /\ UNCHANGED <<timerVars, journalVars, stored_timers, saves, last_save, snapshot>>

InitForm ==
  /\ TimersAtRest
  /\ JournalAtRest(TimerIds)

NextForm ==
  \/ \E fields \in FormInputs : EditForm(fields)
  \/ SaveRejected
  \/ SaveTimer

SpecForm == InitForm /\ [][NextForm]_vars

\* C36: a form input that passes validation never produces a timer entity
\* of duration 0: every timer the form creates has a duration of at least
\* 1 second.
C36_FormDurationAtLeastOne ==
  form_output.kind = "timer" => form_output.duration >= 1

\* ---------------------------------------------------------------------------
\* Persistence of the timers list (utils/storage.js, save_timers; the save
\* effect of screens/HomeScreen.js). The list has been loaded (is_loading is
\* false); is_saving only shows an indicator and is left out.

\* save_timers(timers_array): setItem replaces the stored value or rejects;
\* the rejection is caught and false is returned.
save_timers(stored, timers_array, write_ok) ==
  [stored |-> IF write_ok THEN [kind |-> "array", list |-> timers_array]
              ELSE stored,
   returned |-> write_ok,
   raised |-> FALSE]

\* The save effect of a commit that leaves the list as given: it depends on
\* [timers_list, is_loading] and calls save_timers_to_storage(timers_list)
\* for a list that is not empty.
SaveEffect(list) ==
  saves' = IF list # timers_list /\ Len(list) > 0 THEN saves \cup {list}
           ELSE saves

\* The focus effect with route.params.new_timer, and the save effect.
AddAndSave(new_timer) ==
  /\ alert = NoAlert
  /\ focus_new_timer(new_timer)
  /\ SaveEffect(add_new_timer(timers_list, new_timer))
  /\ UNCHANGED <<journalVars, duration, restart_timeouts, historyVars, alert,
                 form_input, form_output, stored_timers, last_save, snapshot>>

\* "Delete" of the delete confirmation, and the save effect.
DeleteAndSave ==
  /\ alert.kind = "delete"
  /\ handle_delete_timer(alert.id)
  /\ alert' = NoAlert
  /\ SaveEffect(filter_timer(timers_list, alert.id))
  /\ UNCHANGED <<journalVars, duration, restart_timeouts, historyVars,
                 form_input, form_output, stored_timers, last_save, snapshot>>

SaveSettles_rolls_back(list, write_ok) ==
  /\ list \in saves
  /\ stored_timers' = save_timers(stored_timers, list, write_ok).stored
  /\ saves' = saves \ {list}
  /\ last_save' = [op |-> "save", list |-> list, write_ok |-> write_ok,
                   returned |-> save_timers(stored_timers, list, write_ok).returned,
                   raised |-> save_timers(stored_timers, list, write_ok).raised]
  /\ timers_list' = IF write_ok \/ stored_timers.kind # "array" THEN timers_list
                    ELSE stored_timers.list
  /\ UNCHANGED <<duration, engineVars, historyVars, expanded_sections,
                 timer_refs, mounted, in_window, orphan_timeouts, alert,
                 last_home, journalVars, form_input, form_output, snapshot>>

\* The write of one call of save_timers settles; save_timers_to_storage
\* logs a warning when it returned false.
SaveSettles(list, write_ok) ==
  /\ list \in saves
  /\ stored_timers' = save_timers(stored_timers, list, write_ok).stored
  /\ saves' = saves \ {list}
  /\ last_save' = [op |-> "save", list |-> list, write_ok |-> write_ok,
                   returned |-> save_timers(stored_timers, list, write_ok).returned,
                   raised |-> save_timers(stored_timers, list, write_ok).raised]
  /\ UNCHANGED <<timerVars, journalVars, form_input, form_output, snapshot>>

\* The lists of timer entities: the default timer and the custom timers,
\* each at most once.
TimerLists ==
  LET entities == {DefaultTimer(id) : id \in DefaultIds}
                    \cup {[id |-> id, is_default |-> FALSE] : id \in CustomIds}
  IN {list \in UNION {[1..n -> entities] : n \in 1..Cardinality(HomeIds)} :
        \A i, j \in DOMAIN list : list[i].id = list[j].id => i = j}

NextSave ==
  \/ \E new_timer \in NewTimers : AddAndSave(new_timer)
  \/ \E id \in CustomIds : RequestDelete(id)
  \/ CancelDelete
  \/ DeleteAndSave
  \/ \E list \in TimerLists, write_ok \in BOOLEAN : SaveSettles(list, write_ok)

SpecSave == InitHome /\ [][NextSave]_vars

\* C32: when a write of the timers list fails, save_timers returns false
\* without raising, the stored value stays as it was, and the in-memory
\* timers list is not rolled back: the step that settles a write never
\* changes timers_list.
C32_FailedSaveKeepsList ==
  /\ [](last_save.op = "save" =>
          /\ ~last_save.raised
          /\ last_save.returned = last_save.write_ok)
  /\ [][\A list \in saves :
          list \notin saves' =>
            /\ timers_list' = timers_list
            /\ ~last_save'.write_ok =>
                  ~last_save'.returned /\ stored_timers' = stored_timers]_vars

\* C32 witness: after an earlier write succeeded, the write of the current
\* list has failed: the list in memory is the one that triggered the write
\* and differs from the stored one.
C32_Witness ==
  /\ last_save.op = "save"
  /\ ~last_save.write_ok
  /\ ~last_save.returned
  /\ saves = {}
  /\ timers_list = last_save.list
  /\ stored_timers.kind = "array"
  /\ stored_timers.list # timers_list

\* ---------------------------------------------------------------------------
\* get_timer_state of the handle (components/Timer.js 44-47, 215-219).
\*
\* progress is a quotient; the model keeps it as the fraction [num, den]
\* with den > 0 and compares fractions by cross-multiplication.

Fraction(num, den) == [num |-> num, den |-> den]

FractionLeq(a, b) == a.num * b.den <= b.num * a.den

\* Math.max and Math.min of two quotients.
FractionMax(a, b) == IF FractionLeq(a, b) THEN b ELSE a
FractionMin(a, b) == IF FractionLeq(a, b) THEN a ELSE b

\* The fraction of the duration that remains.
calculate_progress_remaining(d, remaining) ==
  IF d = 0 THEN Fraction(0, 1)
  ELSE FractionMax(Fraction(0, 1), FractionMin(Fraction(1, 1), Fraction(remaining, d)))

\* calculate_progress: 0 for duration 0, otherwise
\* Math.max(0, Math.min(1, (duration - remaining_time) / duration)).
calculate_progress(d, remaining) ==
  IF d = 0 THEN Fraction(0, 1)
  ELSE FractionMax(Fraction(0, 1),
                   FractionMin(Fraction(1, 1), Fraction(d - remaining, d)))

\* get_timer_state of the handle of engine id. The handle is recreated
\* whenever is_running or remaining_time changes, so it reads the
\* committed state.
GetTimerState(id) ==
  /\ snapshot' = [kind |-> "state", id |-> id,
                  is_running |-> is_running[id],
                  remaining_time |-> remaining_time[id],
                  progress |-> calculate_progress(duration[id], remaining_time[id])]
  /\ UNCHANGED <<timerVars, journalVars, form_input, form_output,
                 stored_timers, saves, last_save>>

NextState ==
  \/ Next
  \/ \E id \in FocusIds : GetTimerState(id)

\* The engines of SpecState include the timer of duration 0 that the
\* add-timer form can create.
SpecState == Constructed([TimerIds -> 0..MaxDuration]) /\ [][NextState]_vars

HandleOps == {"start_timer", "pause_timer", "reset_timer"}

\* render_timer_item: the timers of a custom section are rendered as
\* SwipeableTimer.
IsSwipeable(id) ==
  \E i \in DOMAIN timers_list : timers_list[i].id = id /\ ~timers_list[i].is_default

\* The engine of id as a record, and what an operation of the handle of
\* its Timer makes of it.
EngineOf(id) ==
  [run |-> is_running[id], rem |-> remaining_time[id],
   modal |-> show_completion_modal[id]]

timer_handle(op, id) ==
  IF op = "start_timer"
  THEN [EngineOf(id) EXCEPT !.run = ref_start_timer(remaining_time[id], is_running[id])]
  ELSE IF op = "pause_timer"
  THEN [EngineOf(id) EXCEPT !.run = ref_pause_timer(is_running[id])]
  ELSE [run |-> FALSE, rem |-> reset_remaining(duration[id]), modal |-> FALSE]

\* A wrapper whose timer_component_ref is never attached.
forward_call_never(inner, called, skipped) == skipped

\* A method of the handle of the SwipeableTimer: it calls the method of the
\* inner handle when timer_component_ref.current is set, and only warns
\* otherwise.
forward_call(inner, called, skipped) == IF inner THEN called ELSE skipped

swipeable_handle(op, id) ==
  forward_call(mounted[id], timer_handle(op, id), EngineOf(id))

\* The commit of all Timer components after their engines became as given.
CommitAll(engine) ==
  /\ is_running' = [id \in TimerIds |-> engine[id].run]
  /\ remaining_time' = [id \in TimerIds |-> engine[id].rem]
  /\ show_completion_modal' = [id \in TimerIds |-> engine[id].modal]
  /\ interval_ref' =
       [id \in TimerIds |->
          IF engine[id].run # is_running[id] \/ engine[id].rem # remaining_time[id]
          THEN CountdownEffect(engine[id].run, engine[id].rem)
          ELSE interval_ref[id]]
  /\ live_intervals' =
       [id \in TimerIds |->
          IF engine[id].run # is_running[id] \/ engine[id].rem # remaining_time[id]
          THEN (live_intervals[id] - cleanup_clears(interval_ref[id]))
                 + effect_creates(engine[id].run, engine[id].rem)
          ELSE live_intervals[id]]

\* The same operation is called on the handle of every timer.
PairHandle(op) ==
  /\ CommitAll([id \in TimerIds |->
                  IF IsSwipeable(id) THEN swipeable_handle(op, id)
                  ELSE timer_handle(op, id)])
  /\ last_op' = Before("custom-1",
                       IF op = "start_timer" THEN "ref_start"
                       ELSE IF op = "pause_timer" THEN "ref_pause" ELSE "ref_reset")
  /\ UNCHANGED <<screenVars, journalVars, homeVars, duration, complete_timeouts,
                 restart_timeouts, complete_calls, zero_hits, run_base,
                 ticks_in_run, paused_in_run, held>>

\* A second passes: the interval of every running engine fires.
PairTick ==
  /\ \E id \in TimerIds : interval_ref[id]
  /\ \A id \in TimerIds : complete_timeouts[id] = 0
  /\ CommitAll([id \in TimerIds |->
                  IF interval_ref[id]
                  THEN [run |-> tick_running(remaining_time[id], is_running[id]),
                        rem |-> tick_updater(remaining_time[id]),
                        modal |-> show_completion_modal[id]]
                  ELSE EngineOf(id)])
  /\ complete_timeouts' =
       [id \in TimerIds |->
          IF interval_ref[id]
          THEN complete_timeouts[id] + tick_schedules(remaining_time[id])
          ELSE complete_timeouts[id]]
  /\ last_op' = Before("custom-1", "tick")
  /\ UNCHANGED <<screenVars, journalVars, homeVars, duration, restart_timeouts,
                 complete_calls, zero_hits, run_base, ticks_in_run,
                 paused_in_run, held>>

\* The pending completion timeouts fire: handle_timer_complete.
PairComplete ==
  /\ \E id \in TimerIds : complete_timeouts[id] > 0
  /\ CommitAll([id \in TimerIds |->
                  IF complete_timeouts[id] > 0
                  THEN [run |-> FALSE, rem |-> remaining_time[id], modal |-> TRUE]
                  ELSE EngineOf(id)])
  /\ complete_timeouts' =
       [id \in TimerIds |->
          IF complete_timeouts[id] > 0 THEN complete_timeouts[id] - 1 ELSE 0]
  /\ last_op' = Before("custom-1", "complete")
  /\ UNCHANGED <<screenVars, journalVars, homeVars, duration, restart_timeouts,
                 complete_calls, zero_hits, run_base, ticks_in_run,
                 paused_in_run, held>>

NextPair ==
  \/ \E op \in HandleOps : PairHandle(op)
  \/ PairTick
  \/ PairComplete

\* Both timers are constructed with the same duration.
SpecPair ==
  Constructed({[id \in TimerIds |-> d] : d \in 1..MaxDuration}) /\ [][NextPair]_vars

\* C38: the handle of a custom (swipeable) timer behaves like the handle of
\* a default timer: after every sequence of start, pause, reset and tick
\* applied through both, remaining_time and is_running of the two engines
\* are equal.
C38_HandlesEquivalent ==
  \A a, b \in TimerIds :
    /\ remaining_time[a] = remaining_time[b]
    /\ is_running[a] = is_running[b]

\* C38 witness: both engines were paused through their handles while
\* running, after a tick.
C38_Witness ==
  /\ last_op.op = "ref_pause"
  /\ last_op.run
  /\ \E id \in TimerIds : IsSwipeable(id)
  /\ \E id \in TimerIds : ~IsSwipeable(id)
  /\ \A id \in TimerIds :
        /\ ~is_running[id]
        /\ 0 < remaining_time[id]
        /\ remaining_time[id] < duration[id]

\* ---------------------------------------------------------------------------
\* The onComplete prop (components/Timer.js 120-123).

\* C39: for each completion, onComplete is called exactly once, only when
\* the add attempt of that completion settles, and whatever the add did:
\* returned true, returned false or threw.
C39_OnCompleteOncePerCompletion ==
  /\ [](\A id \in TimerIds :
         /\ on_complete_calls[id] + hook_adds[id] = add_attempts[id]
         /\ on_complete_calls[id] + hook_adds[id] + complete_timeouts[id]
              = zero_hits[id])
  /\ [][\A id \in TimerIds :
          /\ hook_adds'[id] < hook_adds[id] =>
                on_complete_calls'[id] = on_complete_calls[id] + 1
          /\ on_complete_calls'[id] # on_complete_calls[id] =>
                /\ hook_adds'[id] = hook_adds[id] - 1
                /\ last_journal'.op = "hook_settled"
                /\ last_journal'.outcome \in HookOutcomes]_vars

\* C39 witness: the add of the second completion of an engine threw, and
\* onComplete has been called twice.
C39_Witness ==
  \E id \in FocusIds :
    /\ last_journal.op = "hook_settled"
    /\ last_journal.id = id
    /\ last_journal.outcome = "throws"
    /\ zero_hits[id] = 2
    /\ add_attempts[id] = 2
    /\ hook_adds[id] = 0
    /\ on_complete_calls[id] = 2

\* ---------------------------------------------------------------------------
\* Progress of a running engine (components/Timer.js, the countdown effect).
\*
\* The interval and the timeouts of the JavaScript runtime fire when they
\* are due: Tick, HandleTimerComplete and RestartTimeout are weakly fair.
\* The presses of the user are not. A reset is possible while the engine
\* has completed fewer than MaxRuns countdowns, so that the bound of Tick
\* never stops a running engine.

\* The resets of SpecLive.
LiveReset(id) ==
  /\ zero_hits[id] < MaxRuns
  /\ PressReset(id) \/ RefReset(id) \/ ModalRestart(id)

NextLive ==
  \E id \in FocusIds :
    \/ PressStart(id)
    \/ PressPause(id)
    \/ LiveReset(id)
    \/ RefStart(id)
    \/ RefPause(id)
    \/ Tick(id)
    \/ HandleTimerComplete(id)
    \/ ModalClose(id)
    \/ ModalViewHistory(id)
    \/ RestartTimeout(id)

SpecLive ==
  /\ Init
  /\ [][NextLive]_vars
  /\ \A id \in FocusIds :
        /\ WF_vars(Tick(id))
        /\ WF_vars(HandleTimerComplete(id))
        /\ WF_vars(RestartTimeout(id))

\* C40: under fair scheduling of the ticks, an engine that is Running
\* reaches Completed unless it is paused or reset, and a Completed engine
\* (remaining_time = 0, not running) stays Completed in every step that is
\* not a reset.
C40_RunningReachesCompleted ==
  /\ \A id \in FocusIds :
        [](is_running[id] /\ remaining_time[id] > 0 =>
             <>(\/ remaining_time[id] = 0 /\ ~is_running[id]
                \/ last_op.op \in PauseOps \cup ResetOps))
  /\ [][\A id \in FocusIds :
          (/\ remaining_time[id] = 0
           /\ ~is_running[id]
           /\ last_op'.op \notin ResetOps) =>
             remaining_time'[id] = 0 /\ ~is_running'[id]]_vars
====
